---- MODULE Spec2Model ----
(***************************************************************************)
(* The text-extraction engine of yt-hoover (src/src/nlp_processor.py,      *)
(* class AdvancedNLPProcessor) as a state machine.  A state is a processor *)
(* after construction together with the last call made on it and the       *)
(* value that call returned.  Texts are TLA+ strings; a character is a     *)
(* string of length one.                                                   *)
(*                                                                         *)
(* Floating-point values are represented by integers in thousandths: the   *)
(* double nearest to h/100 is 10*h, and a double that lies one unit in the *)
(* last place above or below it is 10*h+1 or 10*h-1.  The encoding keeps   *)
(* the order and the equality of the doubles the code computes.            *)
(***************************************************************************)
EXTENDS Integers, Sequences, FiniteSets, TLC

VARIABLES
  self,      \* the processor: its knowledge bases and pattern lists
  hashSeed,  \* the interpreter's string-hash seed: fixes the iteration order of sets
  pc,        \* "idle" before the first call, "called" inside a call, "returned" after it
  op,        \* the method called
  text,      \* the text argument of the call
  kb,        \* the knowledge_base argument of the call, in its iteration order
  entityArg, \* the entity argument of the call
  result,    \* the value the call returned
  pinned,    \* an earlier process_text call and its result, kept for comparison
  calls,     \* per thread, the call the thread is making on the shared processor
  analyzer   \* the YouTubeAnalyzer call in progress: its inputs, position and locals

vars == <<self, hashSeed, pc, op, text, kb, entityArg, result, pinned, calls, analyzer>>

-----------------------------------------------------------------------------
(* Strings and characters, as the Python built-ins the code calls.         *)

CharAt(s, i) == SubSeq(s, i, i)

CharsOf(s) == {CharAt(s, i) : i \in 1..Len(s)}

LowerLetters == "abcdefghijklmnopqrstuvwxyz"

UpperLetters == "ABCDEFGHIJKLMNOPQRSTUVWXYZ"

Digits == "0123456789"

\* \w of the re module, over ASCII.
WordChars == CharsOf(LowerLetters) \cup CharsOf(UpperLetters) \cup CharsOf(Digits) \cup {"_"}

\* The characters str.split(), str.strip() and \s treat as whitespace, over ASCII.
Whitespace == {" ", "\t", "\n", "\r", "\f"}

LowerMap ==
  [c \in CharsOf(UpperLetters) |->
     CharAt(LowerLetters, CHOOSE i \in 1..Len(UpperLetters) : CharAt(UpperLetters, i) = c)]

LowerChar(c) == IF c \in DOMAIN LowerMap THEN LowerMap[c] ELSE c

\* str.lower(): every character lower-cased (the string is halved to keep the
\* evaluation shallow).
RECURSIVE str_lower(_)
str_lower(s) ==
  IF Len(s) = 0 THEN ""
  ELSE IF Len(s) = 1 THEN LowerChar(s)
  ELSE LET h == Len(s) \div 2
       IN  str_lower(SubSeq(s, 1, h)) \o str_lower(SubSeq(s, h + 1, Len(s)))

\* The first index i >= from at which sub occurs in s, or 0: str.find().
RECURSIVE str_find(_, _, _)
str_find(s, sub, from) ==
  IF from + Len(sub) - 1 > Len(s) THEN 0
  ELSE IF SubSeq(s, from, from + Len(sub) - 1) = sub THEN from
  ELSE str_find(s, sub, from + 1)

\* sub in s
str_contains(s, sub) ==
  \E i \in 1..(Len(s) - Len(sub) + 1) : SubSeq(s, i, i + Len(sub) - 1) = sub

\* str.count(sub): the number of non-overlapping occurrences, scanning from the left.
RECURSIVE str_count_from(_, _, _)
str_count_from(s, sub, from) ==
  LET i == str_find(s, sub, from)
  IN  IF i = 0 THEN 0 ELSE 1 + str_count_from(s, sub, i + Len(sub))

str_count(s, sub) == str_count_from(s, sub, 1)

\* str.strip(chars): leading and trailing characters of the set removed.
RECURSIVE str_lstrip(_, _)
str_lstrip(s, cs) ==
  IF s # "" /\ CharAt(s, 1) \in cs THEN str_lstrip(SubSeq(s, 2, Len(s)), cs) ELSE s

RECURSIVE str_rstrip(_, _)
str_rstrip(s, cs) ==
  IF s # "" /\ CharAt(s, Len(s)) \in cs THEN str_rstrip(SubSeq(s, 1, Len(s) - 1), cs) ELSE s

str_strip(s, cs) == str_rstrip(str_lstrip(s, cs), cs)

\* str.split(): the maximal runs of non-whitespace characters, in order.
RECURSIVE str_split_from(_, _, _)
str_split_from(s, i, cur) ==
  IF i > Len(s) THEN (IF cur = "" THEN <<>> ELSE <<cur>>)
  ELSE IF CharAt(s, i) \in Whitespace
       THEN (IF cur = "" THEN <<>> ELSE <<cur>>) \o str_split_from(s, i + 1, "")
       ELSE str_split_from(s, i + 1, cur \o CharAt(s, i))

str_split(s) == str_split_from(s, 1, "")

\* The elements of a sequence, as a set.
Range(seq) == {seq[i] : i \in 1..Len(seq)}

Min(a, b) == IF a <= b THEN a ELSE b

Max(a, b) == IF a >= b THEN a ELSE b

-----------------------------------------------------------------------------
(* Floating point.  Only the sums and products the scorer forms occur; the *)
(* ones whose IEEE-754 result is not the double nearest to the decimal     *)
(* result are listed, every other one is exact in the encoding.            *)

\* a + b on doubles: 0.7 + 0.1 = 0.7999999999999999,
\* 0.5 + 0.15000000000000002 = 0.65, 0.8 + 0.15000000000000002 = 0.9500000000000001,
\* 0.8 + 0.15 = 0.9500000000000001,
\* 0.9500000000000001 + 0.1 = 1.05.
FloatAdd(a, b) ==
  CASE a = 700 /\ b = 100 -> 799
    [] a = 500 /\ b = 151 -> 650
    [] a = 800 /\ b = 151 -> 951
    [] a = 800 /\ b = 150 -> 951
    [] a = 951 /\ b = 100 -> 1050
    [] OTHER -> a + b

RepetitionStep == 50

\* n * 0.05 on doubles: 3 * 0.05 = 0.15000000000000002; the products for n >= 4 are
\* 0.2 or more, and min(0.2, .) discards their last place.
FloatMul005(n) == IF n = 3 THEN 151 ELSE RepetitionStep * n

-----------------------------------------------------------------------------
(* The knowledge bases set up by setup_knowledge_bases.                    *)

\* Programming languages (nlp_processor.py lines 27-34): the distinct members of the
\* set literal, in the order in which the literal lists them.
programming_languages_literal ==
  << "python", "javascript", "java", "c++", "c#", "c", "go", "rust", "swift", "kotlin",
     "typescript", "php", "ruby", "scala", "r", "matlab", "perl", "lua", "dart", "julia",
     "haskell", "erlang", "elixir", "clojure", "f#", "ocaml", "scheme", "lisp", "prolog",
     "fortran", "cobol", "pascal", "delphi", "visual basic", "vb.net", "assembly", "bash",
     "powershell", "sql", "plsql", "tsql", "nosql", "graphql", "html", "css", "sass", "less",
     "stylus", "xml", "json", "yaml", "toml", "ini", "csv", "markdown", "latex" >>

\* Frameworks and libraries (nlp_processor.py lines 37-70): the distinct members of the
\* set literal, in the order in which the literal lists them.
frameworks_libraries_literal ==
  << "django", "flask", "fastapi", "tornado", "pyramid", "bottle", "cherrypy", "numpy",
     "pandas", "matplotlib", "seaborn", "plotly", "bokeh", "scipy", "scikit-learn",
     "tensorflow", "pytorch", "keras", "theano", "caffe", "opencv", "pillow", "requests",
     "beautifulsoup", "scrapy", "selenium", "pytest", "unittest", "nose", "tox", "black",
     "flake8", "mypy", "react", "vue", "angular", "svelte", "ember", "backbone", "jquery",
     "express", "koa", "hapi", "fastify", "nest", "next.js", "nuxt", "gatsby", "webpack",
     "parcel", "rollup", "vite", "babel", "eslint", "jest", "mocha", "chai", "cypress",
     "playwright", "puppeteer", "lodash", "moment", "axios", "fetch", "socket.io", "three.js",
     "d3", "spring", "spring boot", "hibernate", "struts", "jsf", "wicket", "junit", "testng",
     "mockito", "maven", "gradle", "ant", "asp.net", ".net core", "entity framework",
     "xamarin", "blazor", "nunit", "xunit", "moq", "autofac", "ninject", "react native",
     "flutter", "ionic", "cordova", "phonegap", "unity", "unreal engine", "bootstrap",
     "tailwind", "bulma", "foundation", "semantic ui", "material ui", "ant design",
     "chakra ui", "styled-components", "mongoose", "sequelize", "typeorm", "prisma", "knex",
     "bookshelf" >>

\* Platforms and services (nlp_processor.py lines 73-100): the distinct members of the
\* set literal, in the order in which the literal lists them.
platforms_services_literal ==
  << "aws", "amazon web services", "azure", "google cloud", "gcp", "digitalocean", "linode",
     "vultr", "heroku", "netlify", "vercel", "cloudflare", "fastly", "akamai", "github",
     "gitlab", "bitbucket", "sourceforge", "codeberg", "docker", "kubernetes", "openshift",
     "rancher", "nomad", "jenkins", "travis ci", "circle ci", "github actions", "gitlab ci",
     "mysql", "postgresql", "mongodb", "redis", "elasticsearch", "cassandra", "dynamodb",
     "firestore", "supabase", "planetscale", "sqlite", "oracle", "sql server", "mariadb",
     "couchdb", "rabbitmq", "apache kafka", "redis pub/sub", "amazon sqs", "google pub/sub",
     "apache pulsar", "nats", "zeromq", "datadog", "new relic", "splunk", "elastic stack",
     "prometheus", "grafana", "kibana", "logstash", "fluentd", "sentry", "stripe", "paypal",
     "twilio", "sendgrid", "mailgun", "auth0", "firebase", "amplify", "sanity", "contentful",
     "strapi" >>

\* Companies and brands (nlp_processor.py lines 103-113): the distinct members of the
\* set literal, in the order in which the literal lists them.
companies_brands_literal ==
  << "google", "microsoft", "amazon", "apple", "meta", "facebook", "netflix", "uber", "airbnb",
     "spotify", "slack", "discord", "zoom", "salesforce", "oracle", "ibm", "intel", "nvidia",
     "amd", "qualcomm", "tesla", "spacex", "openai", "anthropic", "hugging face", "databricks",
     "snowflake", "palantir", "stripe", "shopify", "square", "paypal", "adobe", "autodesk",
     "unity", "epic games", "valve", "steam", "github", "gitlab", "atlassian", "jira",
     "confluence", "trello", "notion", "airtable", "figma", "sketch", "canva", "dropbox",
     "box", "onedrive", "icloud" >>

\* File formats (nlp_processor.py lines 116-128): the distinct members of the
\* set literal, in the order in which the literal lists them.
file_formats_literal ==
  << "json", "xml", "yaml", "toml", "ini", "csv", "tsv", "excel", "pdf", "docx", "pptx",
     "xlsx", "odt", "ods", "odp", "html", "css", "js", "ts", "jsx", "tsx", "vue", "svelte",
     "py", "java", "cpp", "c", "h", "hpp", "cs", "go", "rs", "swift", "kt", "php", "rb",
     "scala", "r", "matlab", "m", "sql", "md", "txt", "log", "conf", "config", "env",
     "dockerfile", "docker-compose", "makefile", "cmake", "png", "jpg", "jpeg", "gif", "svg",
     "webp", "ico", "mp4", "avi", "mov", "wmv", "flv", "webm", "mkv", "mp3", "wav", "flac",
     "aac", "ogg", "wma", "zip", "tar", "gz", "bz2", "xz", "7z", "rar" >>

\* APIs and protocols (nlp_processor.py lines 131-138): the distinct members of the
\* set literal, in the order in which the literal lists them.
apis_protocols_literal ==
  << "rest", "restful", "graphql", "grpc", "soap", "websocket", "http", "https", "ftp", "sftp",
     "ssh", "tcp", "udp", "smtp", "pop3", "imap", "dns", "dhcp", "snmp", "oauth", "oauth2",
     "jwt", "saml", "openid", "ldap", "api", "webhook", "rpc", "json-rpc", "xml-rpc", "mqtt",
     "amqp", "stomp", "sse" >>

\* A set of technical concepts one of which names a kind of tool.
technical_concepts_literal_with_a_tool == << "machine learning", "build tool", "git" >>

\* Technical concepts (nlp_processor.py lines 141-160): the distinct members of the
\* set literal, in the order in which the literal lists them.
technical_concepts_literal ==
  << "machine learning", "deep learning", "artificial intelligence", "neural network",
     "computer vision", "natural language processing", "data science", "big data",
     "data mining", "data analytics", "cloud computing", "edge computing", "serverless",
     "microservices", "containerization", "virtualization", "devops", "ci/cd", "agile",
     "scrum", "kanban", "test driven development", "tdd", "behavior driven development", "bdd",
     "domain driven design", "ddd", "clean architecture", "solid principles",
     "design patterns", "blockchain", "cryptocurrency", "smart contracts", "defi", "web3",
     "metaverse", "augmented reality", "virtual reality", "internet of things", "iot",
     "cybersecurity", "penetration testing", "ethical hacking", "encryption", "cryptography",
     "ssl", "tls", "load balancing", "caching", "cdn", "database optimization",
     "performance tuning", "scalability", "high availability", "disaster recovery", "backup",
     "monitoring", "logging", "debugging", "profiling", "code review", "pair programming",
     "open source", "version control", "git", "continuous integration",
     "continuous deployment", "infrastructure as code", "automation" >>
LexiconNames ==
  <<"programming_languages", "frameworks_libraries", "platforms_services",
    "companies_brands", "file_formats", "apis_protocols", "technical_concepts">>

\* The value setup_knowledge_bases assigns to each attribute.
BuiltLexicon ==
  [ programming_languages |-> Range(programming_languages_literal),
    frameworks_libraries  |-> Range(frameworks_libraries_literal),
    platforms_services    |-> Range(platforms_services_literal),
    companies_brands      |-> Range(companies_brands_literal),
    file_formats          |-> Range(file_formats_literal),
    apis_protocols        |-> Range(apis_protocols_literal),
    technical_concepts    |-> Range(technical_concepts_literal) ]

\* The processor as __init__ leaves it.  The seven sets are held as what has been added
\* to and removed from the sets setup_knowledge_bases built (pairs <<attribute, term>>),
\* the pattern lists of setup_patterns by the names of their patterns (the matchers
\* below give each pattern its meaning).
NewProcessor ==
  [ added        |-> {},
    removed      |-> {},
    url_patterns |-> <<"scheme", "www", "domain">>,
    cli_patterns |-> <<"ops", "cloud", "vcs", "pkg">> ]

\* self.<name>: the current members of one of the seven sets.
KnowledgeBase(p, name) ==
  (BuiltLexicon[name] \cup {t \in {a[2] : a \in p.added} : <<name, t>> \in p.added})
    \ {t \in {r[2] : r \in p.removed} : <<name, t>> \in p.removed}

\* The interpreter's hash seeds that are modelled.  A set of strings is iterated in an
\* order fixed by the strings' hashes, which the seed decides once per process.
HashSeeds == {0, 1}

\* The elements of a sequence in order, each at its first occurrence only.
Distinct(seq) ==
  LET first == SelectSeq([i \in 1..Len(seq) |-> i],
                         LAMBDA i : \A j \in 1..(i - 1) : seq[j] # seq[i])
  IN  [k \in 1..Len(first) |-> seq[first[k]]]

Reverse(seq) == [i \in 1..Len(seq) |-> seq[Len(seq) + 1 - i]]

AllTerms ==
  Distinct(programming_languages_literal \o frameworks_libraries_literal
           \o platforms_services_literal \o companies_brands_literal
           \o file_formats_literal \o apis_protocols_literal
           \o technical_concepts_literal)

\* Terms of no shipped lexicon, which a caller adds to processor.technical_concepts.
CustomTerms == <<"build tool", "web app">>

\* The order in which strings come out of a set under each seed: the order of the
\* literals (the callers' terms after them) under seed 0, the opposite order under seed 1.
HashOrder ==
  [seed \in HashSeeds |->
     IF seed = 0 THEN AllTerms \o CustomTerms ELSE Reverse(AllTerms \o CustomTerms)]

\* for entity in knowledge_base: the members of the set, in the interpreter's order
\* (for sets of lexicon terms).
SetIteration(S, seed) == SelectSeq(HashOrder[seed], LAMBDA t : t \in S)

-----------------------------------------------------------------------------
(* calculate_confidence                                                    *)

BaseConfidence == 500

WordBoundaryBonus == 300

RepetitionCap == 200

ContextBonus == 100

ContextSpan == 5

MaxConfidence == 1000

technical_keywords ==
  <<"using", "with", "framework", "library", "tool", "platform", "service">>

IsWordAt(s, i) == i >= 1 /\ i <= Len(s) /\ CharAt(s, i) \in WordChars

\* \b holds between the characters i-1 and i of s (either may be the edge of s).
WordBoundaryAt(s, i) == IsWordAt(s, i - 1) # IsWordAt(s, i)

\* re.search(r'\b' + re.escape(entity) + r'\b', text)
word_boundary_search(txt, entity) ==
  \E i \in 1..(Len(txt) - Len(entity) + 1) :
     /\ SubSeq(txt, i, i + Len(entity) - 1) = entity
     /\ WordBoundaryAt(txt, i)
     /\ WordBoundaryAt(txt, i + Len(entity))

\* words[start:end], with Python's 0-based bounds
Slice(seq, start, end) == SubSeq(seq, start + 1, end)

\* The loop over the positions of the tokens that hold the first word of the entity.
context_clue_by_first_word(entity, words) ==
  LET first == IF str_split(entity) = <<>> THEN entity ELSE Head(str_split(entity))
      entity_positions == {i \in 0..(Len(words) - 1) : str_contains(words[i + 1], first)}
  IN  \E pos \in entity_positions :
         LET start   == Max(0, pos - ContextSpan)
             end     == Min(Len(words), pos + ContextSpan)
             context == Slice(words, start, end)
         IN  \E k \in 1..Len(technical_keywords) : technical_keywords[k] \in Range(context)

\* The loop over entity_positions: true when some position has a keyword in its window.
context_clue(entity, words) ==
  LET entity_positions == {i \in 0..(Len(words) - 1) : str_contains(words[i + 1], entity)}
  IN  \E pos \in entity_positions :
         LET start   == Max(0, pos - ContextSpan)
             end     == Min(Len(words), pos + ContextSpan)
             context == Slice(words, start, end)
         IN  \E k \in 1..Len(technical_keywords) : technical_keywords[k] \in Range(context)

\* occurrences * 0.05, without min(0.2, .).
repetition_bonus_uncapped(occurrences) == FloatMul005(occurrences)

repetition_bonus(occurrences) == Min(RepetitionCap, FloatMul005(occurrences))

\* calculate_confidence returning base_confidence itself, without min(1.0, .).
calculate_confidence_unclamped(txt, entity, words) ==
  LET c1 == IF word_boundary_search(txt, entity)
            THEN FloatAdd(BaseConfidence, WordBoundaryBonus) ELSE BaseConfidence
      occurrences == str_count(txt, entity)
      c2 == IF occurrences > 1 THEN FloatAdd(c1, repetition_bonus(occurrences)) ELSE c1
  IN  IF context_clue(entity, words) THEN FloatAdd(c2, ContextBonus) ELSE c2

calculate_confidence(txt, entity, words) ==
  LET c1 == IF word_boundary_search(txt, entity)
            THEN FloatAdd(BaseConfidence, WordBoundaryBonus) ELSE BaseConfidence
      occurrences == str_count(txt, entity)
      c2 == IF occurrences > 1 THEN FloatAdd(c1, repetition_bonus(occurrences)) ELSE c1
      c3 == IF context_clue(entity, words) THEN FloatAdd(c2, ContextBonus) ELSE c2
  IN  Min(MaxConfidence, c3)

-----------------------------------------------------------------------------
(* get_entity_category and extract_entities_by_category                    *)

\* get_entity_category testing the file formats before the programming languages.
get_entity_category_formats_first(p, entity) ==
  LET entity_lower == str_lower(entity)
  IN  IF entity_lower \in KnowledgeBase(p, "file_formats") THEN "file_format"
      ELSE IF entity_lower \in KnowledgeBase(p, "programming_languages") THEN "programming_language"
      ELSE IF entity_lower \in KnowledgeBase(p, "frameworks_libraries") THEN "framework_library"
      ELSE IF entity_lower \in KnowledgeBase(p, "platforms_services") THEN "platform_service"
      ELSE IF entity_lower \in KnowledgeBase(p, "companies_brands") THEN "company_brand"
      ELSE IF entity_lower \in KnowledgeBase(p, "apis_protocols") THEN "api_protocol"
      ELSE IF entity_lower \in KnowledgeBase(p, "technical_concepts") THEN "technical_concept"
      ELSE "unknown"

get_entity_category(p, entity) ==
  LET entity_lower == str_lower(entity)
  IN  IF entity_lower \in KnowledgeBase(p, "programming_languages") THEN "programming_language"
      ELSE IF entity_lower \in KnowledgeBase(p, "frameworks_libraries") THEN "framework_library"
      ELSE IF entity_lower \in KnowledgeBase(p, "platforms_services") THEN "platform_service"
      ELSE IF entity_lower \in KnowledgeBase(p, "companies_brands") THEN "company_brand"
      ELSE IF entity_lower \in KnowledgeBase(p, "file_formats") THEN "file_format"
      ELSE IF entity_lower \in KnowledgeBase(p, "apis_protocols") THEN "api_protocol"
      ELSE IF entity_lower \in KnowledgeBase(p, "technical_concepts") THEN "technical_concept"
      ELSE "unknown"

\* The first loop testing `entity in text`, with neither side lower-cased.
match_candidates_case_sensitive(p, txt, kbIter) ==
  LET words == str_split(str_lower(txt))
      found == SelectSeq(kbIter, LAMBDA e : str_contains(txt, e))
  IN  [i \in 1..Len(found) |->
         [ text       |-> found[i],
           confidence |-> calculate_confidence(str_lower(txt), str_lower(found[i]), words),
           category   |-> get_entity_category(p, found[i]) ]]

\* The first loop testing whether the entity is one of the words of the text.
match_candidates_whole_words(p, txt, kbIter) ==
  LET text_lower == str_lower(txt)
      words      == str_split(text_lower)
      found      == SelectSeq(kbIter, LAMBDA e : str_lower(e) \in Range(words))
  IN  [i \in 1..Len(found) |->
         [ text       |-> found[i],
           confidence |-> calculate_confidence(text_lower, str_lower(found[i]), words),
           category   |-> get_entity_category(p, found[i]) ]]

\* The first loop: one candidate per member of the knowledge base that occurs in the
\* lower-cased text, in iteration order.
match_candidates(p, txt, kbIter) ==
  LET text_lower == str_lower(txt)
      words      == str_split(text_lower)
      found      == SelectSeq(kbIter, LAMBDA e : str_contains(text_lower, str_lower(e)))
  IN  [i \in 1..Len(found) |->
         [ text       |-> found[i],
           confidence |-> calculate_confidence(text_lower, str_lower(found[i]), words),
           category   |-> get_entity_category(p, found[i]) ]]

\* The second loop appending every candidate, whether or not its key is known.
unique_put_always(uniq, e) == Append(uniq, e)

\* unique_entities[key] = entity, when the key is new or the confidence is higher.
\* The dict keeps its keys in the order of their first insertion.
unique_put(uniq, e) ==
  LET key == str_lower(e.text)
      at  == {j \in 1..Len(uniq) : str_lower(uniq[j].text) = key}
  IN  IF at = {} THEN Append(uniq, e)
      ELSE LET j == CHOOSE j \in at : TRUE
           IN  IF e.confidence > uniq[j].confidence THEN [uniq EXCEPT ![j] = e] ELSE uniq

RECURSIVE unique_entities(_, _)
unique_entities(entities, uniq) ==
  IF entities = <<>> THEN uniq
  ELSE unique_entities(Tail(entities), unique_put(uniq, Head(entities)))

\* A sort that puts an entity before the entities of equal confidence already placed.
sorted_insert_before_equals(sortedSeq, e) ==
  LET k == Cardinality({j \in 1..Len(sortedSeq) : sortedSeq[j].confidence > e.confidence})
  IN  SubSeq(sortedSeq, 1, k) \o <<e>> \o SubSeq(sortedSeq, k + 1, Len(sortedSeq))

\* sorted(..., key=confidence, reverse=True): stable, so equal confidences keep their order.
sorted_insert(sortedSeq, e) ==
  LET k == Cardinality({j \in 1..Len(sortedSeq) : sortedSeq[j].confidence >= e.confidence})
  IN  SubSeq(sortedSeq, 1, k) \o <<e>> \o SubSeq(sortedSeq, k + 1, Len(sortedSeq))

RECURSIVE sorted_by_confidence(_, _)
sorted_by_confidence(seq, acc) ==
  IF seq = <<>> THEN acc
  ELSE sorted_by_confidence(Tail(seq), sorted_insert(acc, Head(seq)))

extract_entities_by_category(p, txt, kbIter) ==
  sorted_by_confidence(unique_entities(match_candidates(p, txt, kbIter), <<>>), <<>>)

-----------------------------------------------------------------------------
(* Regular expressions.  Each pattern of setup_patterns is given as the    *)
(* matcher the re module runs for it: a function from a start index to the *)
(* index just after the match, or 0 when the pattern does not match there. *)

\* The index just after the longest run of characters of the class cs that starts at i.
RECURSIVE RunEnd(_, _, _)
RunEnd(s, i, cs) ==
  IF i <= Len(s) /\ CharAt(s, i) \in cs THEN RunEnd(s, i + 1, cs) ELSE i

\* The literal lit at index i of s.
LiteralAt(s, i, lit) ==
  i + Len(lit) - 1 <= Len(s) /\ SubSeq(s, i, i + Len(lit) - 1) = lit

\* The literal lit at index i of s under re.IGNORECASE (lit is in lower case).
LiteralAtIgnoreCase(s, i, lit) ==
  i + Len(lit) - 1 <= Len(s) /\ str_lower(SubSeq(s, i, i + Len(lit) - 1)) = lit

HostChars == WordChars \cup {"-", "."}

PortChars == CharsOf(Digits) \cup {":"}

PathChars == WordChars \cup {"/", "_", "."}

QueryChars == WordChars \cup {"&", "=", "%", "."}

FragmentChars == WordChars \cup {"."}

\* (?:/(?:[\w/_.])*)? from index i
url_path_end(s, i) ==
  IF LiteralAt(s, i, "/") THEN RunEnd(s, i + 1, PathChars) ELSE i

\* (?:/(?:[\w/_.])*(?:\?(?:[\w&=%.])*)?(?:#(?:[\w.])*)?)? from index i
url_path_query_fragment_end(s, i) ==
  IF LiteralAt(s, i, "/")
  THEN LET a == RunEnd(s, i + 1, PathChars)
           b == IF LiteralAt(s, a, "?") THEN RunEnd(s, a + 1, QueryChars) ELSE a
       IN  IF LiteralAt(s, b, "#") THEN RunEnd(s, b + 1, FragmentChars) ELSE b
  ELSE i

\* (?:[-\w.])+(?:[:\d]+)? and the optional path, query and fragment, from index i.
\* Everything after the host is optional, so the greedy match is the match.
url_host_port_rest_end(s, i) ==
  LET h == RunEnd(s, i, HostChars)
  IN  IF h = i THEN 0 ELSE url_path_query_fragment_end(s, RunEnd(s, h, PortChars))

\* url_patterns[0] written http:// , without the optional s.
url_scheme_match_http_only(s, i) ==
  IF LiteralAtIgnoreCase(s, i, "http://") THEN url_host_port_rest_end(s, i + 7) ELSE 0

\* url_patterns[0]: https?:// ...
url_scheme_match(s, i) ==
  IF LiteralAtIgnoreCase(s, i, "https://") THEN url_host_port_rest_end(s, i + 8)
  ELSE IF LiteralAtIgnoreCase(s, i, "http://") THEN url_host_port_rest_end(s, i + 7)
  ELSE 0

\* url_patterns[1]: www\. ...
url_www_match(s, i) ==
  IF LiteralAtIgnoreCase(s, i, "www.") THEN url_host_port_rest_end(s, i + 4) ELSE 0

\* The alternation of url_patterns[2], in its order.
url_suffixes ==
  <<"com", "org", "net", "edu", "gov", "io", "co", "ai", "dev", "app", "tech", "cloud">>

\* \.(?:com|org|...) at index j: the index after the first alternative that matches, or 0.
url_suffix_end(s, j) ==
  IF ~LiteralAt(s, j, ".") THEN 0
  ELSE LET ok == {k \in 1..Len(url_suffixes) : LiteralAtIgnoreCase(s, j + 1, url_suffixes[k])}
       IN  IF ok = {} THEN 0
           ELSE LET k == CHOOSE k \in ok : \A m \in ok : k <= m
                IN  j + 1 + Len(url_suffixes[k])

\* url_patterns[2]: (?:[-\w.])+\.(?:com|...)(?:/(?:[\w/_.])*)? : the host is as long as
\* it can be while a suffix still follows it.
url_domain_match(s, i) ==
  LET h  == RunEnd(s, i, HostChars)
      js == {j \in (i + 1)..(h - 1) : url_suffix_end(s, j) # 0}
  IN  IF js = {} THEN 0
      ELSE LET j == CHOOSE j \in js : \A m \in js : m <= j
           IN  url_path_end(s, url_suffix_end(s, j))

url_match(pattern, s, i) ==
  CASE pattern = "scheme" -> url_scheme_match(s, i)
    [] pattern = "www"    -> url_www_match(s, i)
    [] pattern = "domain" -> url_domain_match(s, i)

\* re.findall for a pattern without groups: the matches, leftmost first, none overlapping.
RECURSIVE url_findall(_, _, _)
url_findall(pattern, s, pos) ==
  IF pos > Len(s) THEN <<>>
  ELSE LET e == url_match(pattern, s, pos)
       IN  IF e = 0 THEN url_findall(pattern, s, pos + 1)
           ELSE <<SubSeq(s, pos, e - 1)>> \o url_findall(pattern, s, e)

-----------------------------------------------------------------------------
(* extract_urls                                                            *)

TrailingPunctuation == {".", ",", ";", ":", "!", "?"}

MinUrlLength == 5

\* The matches of all patterns, cleaned and validated, in the order the loops add them.
url_candidates(p, txt) ==
  LET RECURSIVE per_pattern(_)
      per_pattern(k) ==
        IF k > Len(p.url_patterns) THEN <<>>
        ELSE LET matches == url_findall(p.url_patterns[k], txt, 1)
                 cleaned == [m \in 1..Len(matches) |-> str_strip(matches[m], TrailingPunctuation)]
             IN  SelectSeq(cleaned, LAMBDA url : url # "" /\ Len(url) > MinUrlLength)
                 \o per_pattern(k + 1)
  IN  per_pattern(1)

\* list(urls) of a set filled in the order `added`: each string once, in the order the
\* interpreter's hash seed gives the set.
ListOfSet(added, seed) ==
  IF seed = 0 THEN Distinct(added) ELSE Reverse(Distinct(added))

extract_urls(p, txt, seed) == ListOfSet(url_candidates(p, txt), seed)

-----------------------------------------------------------------------------
(* extract_code_snippets                                                   *)

\* The backquote character.  TLA+ admits no backquote inside a string, so the model
\* writes the tilde for it; the tilde belongs to none of the character classes above.
Backquote == "~"

Fence == Backquote \o Backquote \o Backquote

NoMatch == [end |-> 0, groups |-> <<>>]

RECURSIVE RunEndNot(_, _, _)
RunEndNot(s, i, c) ==
  IF i <= Len(s) /\ CharAt(s, i) # c THEN RunEndNot(s, i + 1, c) ELSE i

\* code_block_pattern under re.DOTALL: the fence, the longest run of word characters (the
\* language group, absent when the run is empty), a newline, then the shortest content
\* that a newline and a fence follow.
code_block_match(s, i) ==
  IF ~LiteralAt(s, i, Fence) THEN NoMatch
  ELSE LET l == RunEnd(s, i + Len(Fence), WordChars)
       IN  IF ~LiteralAt(s, l, "\n") THEN NoMatch
           ELSE LET close == str_find(s, "\n" \o Fence, l + 1)
                IN  IF close = 0 THEN NoMatch
                    ELSE [ end    |-> close + 1 + Len(Fence),
                           groups |-> <<SubSeq(s, i + Len(Fence), l - 1),
                                        SubSeq(s, l + 1, close - 1)>> ]

\* inline_pattern: a backquote, one or more characters that are not backquotes, a backquote.
inline_match(s, i) ==
  IF ~LiteralAt(s, i, Backquote) THEN NoMatch
  ELSE LET r == RunEndNot(s, i + 1, Backquote)
       IN  IF r = i + 1 \/ ~LiteralAt(s, r, Backquote) THEN NoMatch
           ELSE [end |-> r + 1, groups |-> <<SubSeq(s, i + 1, r - 1)>>]

snippet_match(pattern, s, i) ==
  IF pattern = "code_block" THEN code_block_match(s, i) ELSE inline_match(s, i)

\* re.findall for a pattern with groups: the groups of each match, leftmost first.
RECURSIVE snippet_findall(_, _, _)
snippet_findall(pattern, s, pos) ==
  IF pos > Len(s) THEN <<>>
  ELSE LET m == snippet_match(pattern, s, pos)
       IN  IF m.end = 0 THEN snippet_findall(pattern, s, pos + 1)
           ELSE <<m.groups>> \o snippet_findall(pattern, s, m.end)

CodeBlockConfidence == 900

InlineCodeConfidence == 600

MinInlineLength == 2

\* extract_code_snippets keeping every inline match that is not blank.
extract_code_snippets_keeping_short(txt) ==
  LET blocks  == snippet_findall("code_block", txt, 1)
      inlines == SelectSeq(snippet_findall("inline", txt, 1),
                           LAMBDA g : Len(str_strip(g[1], Whitespace)) > 0)
  IN  [i \in 1..Len(blocks) |->
         [ type       |-> "code_block",
           language   |-> IF blocks[i][1] # "" THEN blocks[i][1] ELSE "unknown",
           code       |-> str_strip(blocks[i][2], Whitespace),
           confidence |-> CodeBlockConfidence ]]
      \o
      [i \in 1..Len(inlines) |->
         [ type       |-> "inline_code",
           language   |-> "unknown",
           code       |-> str_strip(inlines[i][1], Whitespace),
           confidence |-> InlineCodeConfidence ]]

extract_code_snippets(txt) ==
  LET blocks  == snippet_findall("code_block", txt, 1)
      inlines == SelectSeq(snippet_findall("inline", txt, 1),
                           LAMBDA g : Len(str_strip(g[1], Whitespace)) > MinInlineLength)
  IN  [i \in 1..Len(blocks) |->
         [ type       |-> "code_block",
           language   |-> IF blocks[i][1] # "" THEN blocks[i][1] ELSE "unknown",
           code       |-> str_strip(blocks[i][2], Whitespace),
           confidence |-> CodeBlockConfidence ]]
      \o
      [i \in 1..Len(inlines) |->
         [ type       |-> "inline_code",
           language   |-> "unknown",
           code       |-> str_strip(inlines[i][1], Whitespace),
           confidence |-> InlineCodeConfidence ]]

-----------------------------------------------------------------------------
(* extract_commands                                                        *)

\* The alternation of tool names of each pattern of cli_patterns, in its order.
cli_tools ==
  [ ops   |-> <<"docker", "kubectl", "helm", "terraform", "ansible", "vagrant", "chef",
                "puppet">>,
    cloud |-> <<"aws", "gcloud", "az">>,
    vcs   |-> <<"git", "svn", "hg">>,
    pkg   |-> <<"npm", "yarn", "pip", "composer", "gem", "cargo", "go">> ]

\* ^ under re.MULTILINE
AtLineStart(s, i) == i = 1 \/ CharAt(s, i - 1) = "\n"

\* (tool)\s+\w+ from index j: the first tool of the alternation after which whitespace
\* and a word follow.  The group is the tool name alone.
cli_tool_match(tools, s, j) ==
  LET rest(k) == LET w == RunEnd(s, k, Whitespace)
                 IN  IF w = k \/ RunEnd(s, w, WordChars) = w THEN 0
                     ELSE RunEnd(s, w, WordChars)
      ok == {n \in 1..Len(tools) :
               LiteralAt(s, j, tools[n]) /\ rest(j + Len(tools[n])) # 0}
  IN  IF ok = {} THEN NoMatch
      ELSE LET n == CHOOSE n \in ok : \A m \in ok : n <= m
           IN  [end |-> rest(j + Len(tools[n])), groups |-> <<tools[n]>>]

\* (?:^|\s)(tool)\s+\w+ at index i: the line start is tried before the whitespace.
cli_match(pattern, s, i) ==
  LET atStart == IF AtLineStart(s, i) THEN cli_tool_match(cli_tools[pattern], s, i)
                 ELSE NoMatch
  IN  IF atStart.end # 0 THEN atStart
      ELSE IF i <= Len(s) /\ CharAt(s, i) \in Whitespace
           THEN cli_tool_match(cli_tools[pattern], s, i + 1)
           ELSE NoMatch

\* re.findall for a pattern with one group: the group of each match, leftmost first.
RECURSIVE cli_findall(_, _, _)
cli_findall(pattern, s, pos) ==
  IF pos > Len(s) THEN <<>>
  ELSE LET m == cli_match(pattern, s, pos)
       IN  IF m.end = 0 THEN cli_findall(pattern, s, pos + 1)
           ELSE <<m.groups[1]>> \o cli_findall(pattern, s, m.end)

CommandConfidence == 800

extract_commands(p, txt) ==
  LET RECURSIVE per_pattern(_)
      per_pattern(k) ==
        IF k > Len(p.cli_patterns) THEN <<>>
        ELSE LET matches == cli_findall(p.cli_patterns[k], txt, 1)
             IN  [m \in 1..Len(matches) |->
                    [ command    |-> str_strip(matches[m], Whitespace),
                      type       |-> "cli_command",
                      confidence |-> CommandConfidence ]]
                 \o per_pattern(k + 1)
  IN  per_pattern(1)

-----------------------------------------------------------------------------
(* process_text                                                            *)

RECURSIVE SumConfidence(_)
SumConfidence(items) ==
  IF items = <<>> THEN 0 ELSE Head(items).confidence + SumConfidence(Tail(items))

\* The mean without the floor of the denominator: sum / len(items).
mean_confidence_unguarded(items) == [num |-> SumConfidence(items), den |-> Len(items)]

\* sum(item['confidence'] for item in items) / max(len(items), 1), kept as the quotient
\* num/den of the encoded confidences (the rounding of the sum and of the division is
\* not represented).
MeanConfidence(items) == [num |-> SumConfidence(items), den |-> Max(Len(items), 1)]

UrlConfidence == 950

\* The texts of the items, last item first.
texts_in_reverse(items) == [i \in 1..Len(items) |-> items[Len(items) + 1 - i].text]

Texts(items) == [i \in 1..Len(items) |-> items[i].text]

tool_keywords == <<"tool", "software", "app", "platform">>

\* The dict of the `if not text` branch: confidence_scores is the empty dict.
empty_result ==
  [ urls                     |-> <<>>,
    tools_and_software       |-> <<>>,
    programming_languages    |-> <<>>,
    frameworks_and_libraries |-> <<>>,
    platforms_and_services   |-> <<>>,
    companies_and_brands     |-> <<>>,
    file_formats             |-> <<>>,
    apis_and_protocols       |-> <<>>,
    technical_concepts       |-> <<>>,
    code_snippets            |-> <<>>,
    commands                 |-> <<>>,
    confidence_scores        |-> [k \in {} |-> 0] ]

\* The seven calls of extract_entities_by_category, in the order of the code
\* (that of LexiconNames), each reading its lexicon from the processor.
process_text_entities(p, txt, seed) ==
  [n \in 1..Len(LexiconNames) |->
     extract_entities_by_category(
       p, txt, SetIteration(KnowledgeBase(p, LexiconNames[n]), seed))]

\* process_text merging the company matches into tools_and_software as well.
process_text_return_adding_companies(urls, entities, code_snippets, commands) ==
  LET programming_langs == entities[1]
      frameworks        == entities[2]
      platforms         == entities[3]
      companies         == entities[4]
      formats           == entities[5]
      apis              == entities[6]
      concepts          == entities[7]
      tools_and_software ==
        frameworks \o platforms \o companies \o
        SelectSeq(concepts, LAMBDA item :
                    \E k \in 1..Len(tool_keywords) :
                       str_contains(str_lower(item.text), tool_keywords[k]))
  IN  [ urls                     |-> urls,
        tools_and_software       |-> tools_and_software,
        programming_languages    |-> Texts(programming_langs),
        frameworks_and_libraries |-> Texts(frameworks),
        platforms_and_services   |-> Texts(platforms),
        companies_and_brands     |-> Texts(companies),
        file_formats             |-> Texts(formats),
        apis_and_protocols       |-> Texts(apis),
        technical_concepts       |-> Texts(concepts),
        code_snippets            |-> code_snippets,
        commands                 |-> commands,
        confidence_scores        |->
          [ url_extraction    |-> [num |-> IF urls # <<>> THEN UrlConfidence ELSE 0, den |-> 1],
            entity_extraction |-> MeanConfidence(tools_and_software),
            code_detection    |-> MeanConfidence(code_snippets),
            command_detection |-> MeanConfidence(commands) ] ]

\* The rest of process_text, from the lists the extractors returned: tools_and_software,
\* the summary scores and the returned dict.
process_text_return(urls, entities, code_snippets, commands) ==
  LET programming_langs == entities[1]
      frameworks        == entities[2]
      platforms         == entities[3]
      companies         == entities[4]
      formats           == entities[5]
      apis              == entities[6]
      concepts          == entities[7]
      tools_and_software ==
        frameworks \o platforms \o
        SelectSeq(concepts, LAMBDA item :
                    \E k \in 1..Len(tool_keywords) :
                       str_contains(str_lower(item.text), tool_keywords[k]))
  IN  [ urls                     |-> urls,
        tools_and_software       |-> tools_and_software,
        programming_languages    |-> Texts(programming_langs),
        frameworks_and_libraries |-> Texts(frameworks),
        platforms_and_services   |-> Texts(platforms),
        companies_and_brands     |-> Texts(companies),
        file_formats             |-> Texts(formats),
        apis_and_protocols       |-> Texts(apis),
        technical_concepts       |-> Texts(concepts),
        code_snippets            |-> code_snippets,
        commands                 |-> commands,
        confidence_scores        |->
          [ url_extraction    |-> [num |-> IF urls # <<>> THEN UrlConfidence ELSE 0, den |-> 1],
            entity_extraction |-> MeanConfidence(tools_and_software),
            code_detection    |-> MeanConfidence(code_snippets),
            command_detection |-> MeanConfidence(commands) ] ]

process_text(p, txt, seed) ==
  IF txt = "" THEN empty_result
  ELSE process_text_return(extract_urls(p, txt, seed),
                           process_text_entities(p, txt, seed),
                           extract_code_snippets(txt),
                           extract_commands(p, txt))

-----------------------------------------------------------------------------
(* Inputs                                                                  *)

SeqsUpTo(S, n) == UNION {[1..k -> S] : k \in 0..n}

RECURSIVE Join(_, _)
Join(parts, sep) ==
  IF parts = <<>> THEN ""
  ELSE IF Len(parts) = 1 THEN parts[1]
  ELSE parts[1] \o sep \o Join(Tail(parts), sep)

RECURSIVE Repeat(_, _)
Repeat(s, n) == IF n = 0 THEN "" ELSE s \o Repeat(s, n - 1)

GithubUrl == "https://github.com/example/repo"

EntityTestText == "We use Python and React for our web application with MongoDB database"

FencedBlockText == Fence \o "javascript\nconst x = 1;\n" \o Fence

PlainFencedBlockText == Fence \o "\nconst x = 1;\n" \o Fence

CommandLine == "npm install express mongoose"

\* The longest run of one term in the texts given to process_text.
MaxRepeat == 5

\* Texts given to process_text: the empty text, the texts of tests/test_basic.py and of
\* main(), and a term repeated, as a word of its own and inside a longer word, with and
\* without a context keyword before it.
ProcessTexts ==
  { "", EntityTestText, "Check out " \o GithubUrl \o " and www.example.com",
    FencedBlockText, PlainFencedBlockText, "Run ~pip~ or ~a~ here",
    CommandLine, "Install dependencies:\n    " \o CommandLine \o "\n",
    "Deploy on AWS using Docker, then git push" }
  \cup {"using" \o Repeat(" react", n) : n \in 1..MaxRepeat}
  \cup {"we" \o Repeat(" preact", n) : n \in 1..MaxRepeat}

\* Words of the texts given to extract_entities_by_category, and the longest text in words.
MatchWords == {"go", "GO", "gopher", "react", "using"}

MaxWords == 3

MatchTexts == {Join(ws, " ") : ws \in SeqsUpTo(MatchWords, MaxWords)}

\* Terms of the knowledge bases given to extract_entities_by_category, and the largest
\* knowledge base.  Each knowledge base is tried in every iteration order.
MatchTerms == {"go", "Go", "react", "r"}

MaxKb == 3

KbIterations ==
  {it \in SeqsUpTo(MatchTerms, MaxKb) : \A i, j \in 1..Len(it) : i # j => it[i] # it[j]}

\* Knowledge bases with terms of two words.
PhraseKbs == {<<"go react">>, <<"go", "go react">>, <<"react using", "Go React">>}

\* What is written before and after GithubUrl in the texts given to extract_urls, and
\* the number of such pieces on each side.
UrlPieces == {" ", "\n", ".", ",", "?", "#", "s", "/x", "http://"}

MaxPad == 1

UrlPads == {Join(ps, "") : ps \in SeqsUpTo(UrlPieces, MaxPad)}

UrlTexts == {before \o GithubUrl \o after : before \in UrlPads, after \in UrlPads}

\* Bare domain names, with and without punctuation before and after them.
DomainTexts ==
  {lead \o domain \o tail : lead \in {"", ".", "..", "see ."},
                            domain \in {"example.com", "ab.io", "x.ab.io"},
                            tail \in {"", ".", "/x?", "!"}}

-----------------------------------------------------------------------------
(* The calls                                                               *)

NoCall == [set |-> FALSE, text |-> "", result |-> <<>>]

\* The threads that share one processor.
Threads == {1, 2}

NoLocals == [urls |-> <<>>, entities |-> <<>>, code_snippets |-> <<>>, commands |-> <<>>]

IdleCall == [pc |-> "idle", op |-> "none", text |-> "", locals |-> NoLocals, result |-> <<>>]

NoCalls == [t \in Threads |-> IdleCall]

\* No YouTubeAnalyzer call is in progress.
IdleAnalyzer ==
  [ pc                 |-> "idle",
    inputs             |-> <<>>,
    index              |-> 0,
    results            |-> <<>>,
    video_id           |-> "",
    metadata_dict      |-> <<>>,
    page_content       |-> <<>>,
    content_to_analyze |-> "",
    extraction_method  |-> "",
    exception          |-> "",
    value              |-> <<>>,
    crawls             |-> 0,
    processed          |-> 0,
    clock              |-> 0 ]

Init ==
  /\ self = NewProcessor
  /\ hashSeed \in HashSeeds
  /\ pc = "idle"
  /\ op = "none"
  /\ text = ""
  /\ kb = <<>>
  /\ entityArg = ""
  /\ result = <<>>
  /\ pinned = NoCall
  /\ calls = NoCalls
  /\ analyzer = IdleAnalyzer

\* A caller calls process_text(t).
CallProcessText(t) ==
  /\ pc # "called"
  /\ pc' = "called"
  /\ op' = "process_text"
  /\ text' = t
  /\ result' = <<>>
  /\ UNCHANGED <<self, hashSeed, kb, entityArg, pinned, calls, analyzer>>

\* process_text remembering the words of its text as framework names.
self_after_learning_words(p, txt) ==
  [p EXCEPT !.added = @ \union {<<"frameworks_libraries", w>> : w \in Range(str_split(str_lower(txt)))}]

\* process_text consuming its pattern list: the last url pattern is popped by each call.
self_after_popping_a_pattern(p, txt) ==
  [p EXCEPT !.url_patterns = SubSeq(@, 1, Max(Len(@), 1) - 1)]

\* The processor after process_text(txt): no attribute of self is assigned.
self_after_process_text(p, txt) == p

\* process_text runs and returns.
ProcessText ==
  /\ pc = "called"
  /\ op = "process_text"
  /\ result' = process_text(self, text, hashSeed)
  /\ self' = self_after_process_text(self, text)
  /\ pc' = "returned"
  /\ UNCHANGED <<hashSeed, op, text, kb, entityArg, pinned, calls, analyzer>>

\* The caller keeps the call just made, to compare a later call with it.
Pin ==
  /\ pc = "returned"
  /\ op = "process_text"
  /\ ~pinned.set
  /\ pinned' = [set |-> TRUE, text |-> text, result |-> result]
  /\ UNCHANGED <<self, hashSeed, pc, op, text, kb, entityArg, result, calls, analyzer>>

Next ==
  \/ \E t \in ProcessTexts : CallProcessText(t)
  \/ ProcessText
  \/ Pin

Spec == Init /\ [][Next]_vars

\* extract_entities_by_category called on a new processor with a text and a knowledge base.
InitMatch ==
  /\ self = NewProcessor
  /\ hashSeed \in HashSeeds
  /\ pc = "called"
  /\ op = "extract_entities_by_category"
  /\ text \in MatchTexts
  /\ kb \in KbIterations \cup PhraseKbs
  /\ entityArg = ""
  /\ result = <<>>
  /\ pinned = NoCall
  /\ calls = NoCalls
  /\ analyzer = IdleAnalyzer

ExtractEntitiesByCategory ==
  /\ pc = "called"
  /\ op = "extract_entities_by_category"
  /\ result' = extract_entities_by_category(self, text, kb)
  /\ pc' = "returned"
  /\ UNCHANGED <<self, hashSeed, op, text, kb, entityArg, pinned, calls, analyzer>>

NextMatch == ExtractEntitiesByCategory

SpecMatch == InitMatch /\ [][NextMatch]_vars

\* extract_urls called on a new processor with a text.
InitUrls ==
  /\ self = NewProcessor
  /\ hashSeed \in HashSeeds
  /\ pc = "called"
  /\ op = "extract_urls"
  /\ text \in UrlTexts \cup DomainTexts
  /\ kb = <<>>
  /\ entityArg = ""
  /\ result = <<>>
  /\ pinned = NoCall
  /\ calls = NoCalls
  /\ analyzer = IdleAnalyzer

ExtractUrls ==
  /\ pc = "called"
  /\ op = "extract_urls"
  /\ result' = extract_urls(self, text, hashSeed)
  /\ pc' = "returned"
  /\ UNCHANGED <<self, hashSeed, op, text, kb, entityArg, pinned, calls, analyzer>>

NextUrls == ExtractUrls

SpecUrls == InitUrls /\ [][NextUrls]_vars

\* A processor to whose technical_concepts the caller has added the terms of CustomTerms.
CustomProcessor ==
  [NewProcessor EXCEPT !.added = {<<"technical_concepts", t>> : t \in Range(CustomTerms)}]

\* Texts given to process_text on either processor: those of ProcessTexts, and texts with
\* or without a context keyword, frameworks (vue inside a longer word), platforms,
\* technical concepts (shipped ones and the callers') and a language or a file format.
ToolTexts ==
  ProcessTexts \cup
  {str_strip(Join(<<lead, fw, pf, concept, other>>, " "), Whitespace) :
     lead    \in {"", "using"},
     fw      \in {"", "react", "vues react", "react vues"},
     pf      \in {"", "aws", "github"},
     concept \in {"", "build tool", "machine learning", "web app build tool machine learning"},
     other   \in {"", "python", "json"}}

\* process_text called with a text on a processor, new or with the callers' terms.
InitTools ==
  /\ self \in {NewProcessor, CustomProcessor}
  /\ hashSeed \in HashSeeds
  /\ pc = "called"
  /\ op = "process_text"
  /\ text \in ToolTexts
  /\ kb = <<>>
  /\ entityArg = ""
  /\ result = <<>>
  /\ pinned = NoCall
  /\ calls = NoCalls
  /\ analyzer = IdleAnalyzer

NextTools == ProcessText

SpecTools == InitTools /\ [][NextTools]_vars

\* Texts given to extract_code_snippets: one or two backquoted spans, the body of each
\* blank, of 1, 2 or 3 characters or of two words, with and without blanks around it,
\* joined by nothing, a blank, a letter or a further backquote; and the fenced blocks.
SnippetSpans ==
  {Backquote \o before \o body \o after \o Backquote :
     before \in {"", " "}, body \in {"", "a", "ab", "abc", "a b"}, after \in {"", " ", "\n"}}

SnippetGlue == {"", " ", "x", Backquote}

SnippetTexts ==
  {""} \cup SnippetSpans \cup {FencedBlockText, PlainFencedBlockText}
  \cup {first \o glue \o second :
          first \in SnippetSpans, glue \in SnippetGlue, second \in SnippetSpans}

\* extract_code_snippets called on a new processor with a text.
InitSnippets ==
  /\ self = NewProcessor
  /\ hashSeed \in HashSeeds
  /\ pc = "called"
  /\ op = "extract_code_snippets"
  /\ text \in SnippetTexts
  /\ kb = <<>>
  /\ entityArg = ""
  /\ result = <<>>
  /\ pinned = NoCall
  /\ calls = NoCalls
  /\ analyzer = IdleAnalyzer

ExtractCodeSnippets ==
  /\ pc = "called"
  /\ op = "extract_code_snippets"
  /\ result' = extract_code_snippets(text)
  /\ pc' = "returned"
  /\ UNCHANGED <<self, hashSeed, op, text, kb, entityArg, pinned, calls, analyzer>>

NextSnippets == ExtractCodeSnippets

SpecSnippets == InitSnippets /\ [][NextSnippets]_vars

-----------------------------------------------------------------------------
(* YouTubeExtractor.extract_video_id (src/src/yt_hoover.py)                 *)

\* The alternatives of the first pattern, in the order the pattern lists them.
video_url_prefixes == <<"youtube.com/watch?v=", "youtu.be/", "youtube.com/embed/">>

\* The characters the group [^&\n?#]+ does not take.
video_id_stops == {"&", "\n", "?", "#"}

\* [a-zA-Z0-9_-]
video_id_chars ==
  CharsOf(LowerLetters) \union CharsOf(UpperLetters) \union CharsOf(Digits) \union {"_", "-"}

VideoIdLength == 11

None == [is_none |-> TRUE, value |-> ""]

Some(v) == [is_none |-> FALSE, value |-> v]

\* The end of the longest run from i of characters that are not in cs.
RECURSIVE RunEndOutside(_, _, _)
RunEndOutside(s, i, cs) ==
  IF i <= Len(s) /\ CharAt(s, i) \notin cs THEN RunEndOutside(s, i + 1, cs) ELSE i

\* The group taking up to the first '&' only.
video_url_match_at_stopping_at_ampersand(s, i) ==
  LET fits == {n \in 1..Len(video_url_prefixes) :
                 /\ LiteralAt(s, i, video_url_prefixes[n])
                 /\ RunEndOutside(s, i + Len(video_url_prefixes[n]), {"&"})
                      > i + Len(video_url_prefixes[n])}
  IN  IF fits = {} THEN None
      ELSE LET n     == CHOOSE m \in fits : \A k \in fits : m <= k
               start == i + Len(video_url_prefixes[n])
           IN  Some(SubSeq(s, start, RunEndOutside(s, start, {"&"}) - 1))

\* The first pattern matched at position i: the first alternative that is at i and is
\* followed by at least one character the group takes; the group is greedy.
video_url_match_at(s, i) ==
  LET fits == {n \in 1..Len(video_url_prefixes) :
                 /\ LiteralAt(s, i, video_url_prefixes[n])
                 /\ RunEndOutside(s, i + Len(video_url_prefixes[n]), video_id_stops)
                      > i + Len(video_url_prefixes[n])}
  IN  IF fits = {} THEN None
      ELSE LET n     == CHOOSE m \in fits : \A k \in fits : m <= k
               start == i + Len(video_url_prefixes[n])
           IN  Some(SubSeq(s, start, RunEndOutside(s, start, video_id_stops) - 1))

\* re.search(patterns[0], url): the match at the leftmost position that has one.
video_url_search(s) ==
  LET at == {i \in 1..Len(s) : ~video_url_match_at(s, i).is_none}
  IN  IF at = {} THEN None
      ELSE video_url_match_at(s, CHOOSE i \in at : \A j \in at : i <= j)

\* re.search(patterns[1], url): ^ is the start of the string, $ its end or the place
\* before a newline that ends it.
video_bare_id_search(s) ==
  IF /\ Len(s) >= VideoIdLength
     /\ \A i \in 1..VideoIdLength : CharAt(s, i) \in video_id_chars
     /\ \/ Len(s) = VideoIdLength
        \/ Len(s) = VideoIdLength + 1 /\ CharAt(s, Len(s)) = "\n"
  THEN Some(SubSeq(s, 1, VideoIdLength))
  ELSE None

\* for pattern in patterns: the group of the first pattern that matches, else None.
extract_video_id(url) ==
  IF ~video_url_search(url).is_none THEN video_url_search(url)
  ELSE video_bare_id_search(url)

TestVideoId == "dQw4w9WgXcQ"

VideoLeads == {"", "https://www.", "see "}

VideoForms ==
  { "", "youtube.com/watch?v=", "youtu.be/", "youtube.com/embed/",
    "youtube.com/watch?feature=share&v=", "Youtu.be/", "youtube.com/v/" }

VideoIds == {"", TestVideoId, "dQw4w9WgXc", "dQw4w9WgXcQ1", "dQw4_9-gXcQ", "dQw4w9Wg.cQ"}

VideoTails == {"", "&t=42", "?t=1", "#frag", "\n", "/extra", " youtu.be/abc"}

VideoTexts ==
  {a \o b \o c \o d : a \in VideoLeads, b \in VideoForms, c \in VideoIds, d \in VideoTails}

\* extract_video_id called with a string.
InitVideoId ==
  /\ self = NewProcessor
  /\ hashSeed \in HashSeeds
  /\ pc = "called"
  /\ op = "extract_video_id"
  /\ text \in VideoTexts
  /\ kb = <<>>
  /\ entityArg = ""
  /\ result = <<>>
  /\ pinned = NoCall
  /\ calls = NoCalls
  /\ analyzer = IdleAnalyzer

ExtractVideoId ==
  /\ pc = "called"
  /\ op = "extract_video_id"
  /\ result' = extract_video_id(text)
  /\ pc' = "returned"
  /\ UNCHANGED <<self, hashSeed, op, text, kb, entityArg, pinned, calls, analyzer>>

NextVideoId == ExtractVideoId

SpecVideoId == InitVideoId /\ [][NextVideoId]_vars

-----------------------------------------------------------------------------
(* Calls made by several threads on one shared processor.  A call of        *)
(* process_text is a sequence of steps, one per extractor it calls; each     *)
(* step reads the attributes of self it needs when it runs.                  *)

ThreadTexts ==
  { "", "Check out " \o GithubUrl \o " and www.example.com", "using react react",
    CommandLine }

ThreadOps == {"process_text", "extract_urls", "extract_entities_by_category",
              "calculate_confidence"}

\* The entity a thread scores, and the lexicon attribute it passes as knowledge_base.
ThreadEntity == "react"

ThreadLexicon == "frameworks_libraries"

InitThreads ==
  /\ self = NewProcessor
  /\ hashSeed \in HashSeeds
  /\ pc = "idle"
  /\ op = "none"
  /\ text = ""
  /\ kb = <<>>
  /\ entityArg = ""
  /\ result = <<>>
  /\ pinned = NoCall
  /\ calls = NoCalls
  /\ analyzer = IdleAnalyzer

\* Thread t calls method o with text txt.
ThreadCall(t, o, txt) ==
  /\ calls[t].pc \in {"idle", "returned"}
  /\ calls' = [calls EXCEPT ![t] = [IdleCall EXCEPT !.pc = "called", !.op = o, !.text = txt]]
  /\ UNCHANGED <<self, hashSeed, pc, op, text, kb, entityArg, result, pinned, analyzer>>

\* process_text, lines 346-363: the empty text returns at once, else urls are extracted.
ThreadProcessTextUrls(t) ==
  /\ calls[t].op = "process_text"
  /\ calls[t].pc = "called"
  /\ calls' = [calls EXCEPT ![t] =
                 IF calls[t].text = ""
                 THEN [@ EXCEPT !.pc = "returned", !.result = empty_result]
                 ELSE [@ EXCEPT !.pc = "urls",
                                !.locals.urls = extract_urls(self, calls[t].text, hashSeed)]]
  /\ UNCHANGED <<self, hashSeed, pc, op, text, kb, entityArg, result, pinned, analyzer>>

\* process_text, lines 366-372.
ThreadProcessTextEntities(t) ==
  /\ calls[t].op = "process_text"
  /\ calls[t].pc = "urls"
  /\ calls' = [calls EXCEPT ![t] =
                 [@ EXCEPT !.pc = "entities",
                           !.locals.entities = process_text_entities(self, calls[t].text, hashSeed)]]
  /\ UNCHANGED <<self, hashSeed, pc, op, text, kb, entityArg, result, pinned, analyzer>>

\* process_text, line 381.
ThreadProcessTextSnippets(t) ==
  /\ calls[t].op = "process_text"
  /\ calls[t].pc = "entities"
  /\ calls' = [calls EXCEPT ![t] =
                 [@ EXCEPT !.pc = "code_snippets",
                           !.locals.code_snippets = extract_code_snippets(calls[t].text)]]
  /\ UNCHANGED <<self, hashSeed, pc, op, text, kb, entityArg, result, pinned, analyzer>>

\* process_text, line 382.
ThreadProcessTextCommands(t) ==
  /\ calls[t].op = "process_text"
  /\ calls[t].pc = "code_snippets"
  /\ calls' = [calls EXCEPT ![t] =
                 [@ EXCEPT !.pc = "commands",
                           !.locals.commands = extract_commands(self, calls[t].text)]]
  /\ UNCHANGED <<self, hashSeed, pc, op, text, kb, entityArg, result, pinned, analyzer>>

\* process_text, lines 375-378 and 385-405.
ThreadProcessTextReturn(t) ==
  /\ calls[t].op = "process_text"
  /\ calls[t].pc = "commands"
  /\ calls' = [calls EXCEPT ![t] =
                 [@ EXCEPT !.pc = "returned",
                           !.result = process_text_return(calls[t].locals.urls, calls[t].locals.entities,
                                                          calls[t].locals.code_snippets,
                                                          calls[t].locals.commands)]]
  /\ self' = self_after_process_text(self, calls[t].text)
  /\ UNCHANGED <<hashSeed, pc, op, text, kb, entityArg, result, pinned, analyzer>>

ThreadExtractUrls(t) ==
  /\ calls[t].op = "extract_urls"
  /\ calls[t].pc = "called"
  /\ calls' = [calls EXCEPT ![t] =
                 [@ EXCEPT !.pc = "returned",
                           !.result = extract_urls(self, calls[t].text, hashSeed)]]
  /\ UNCHANGED <<self, hashSeed, pc, op, text, kb, entityArg, result, pinned, analyzer>>

\* extract_entities_by_category(text, self.frameworks_libraries)
ThreadExtractEntitiesByCategory(t) ==
  /\ calls[t].op = "extract_entities_by_category"
  /\ calls[t].pc = "called"
  /\ calls' = [calls EXCEPT ![t] =
                 [@ EXCEPT !.pc = "returned",
                           !.result = extract_entities_by_category(
                                        self, calls[t].text,
                                        SetIteration(KnowledgeBase(self, ThreadLexicon),
                                                     hashSeed))]]
  /\ UNCHANGED <<self, hashSeed, pc, op, text, kb, entityArg, result, pinned, analyzer>>

\* calculate_confidence(text_lower, entity_lower, words)
ThreadCalculateConfidence(t) ==
  /\ calls[t].op = "calculate_confidence"
  /\ calls[t].pc = "called"
  /\ calls' = [calls EXCEPT ![t] =
                 [@ EXCEPT !.pc = "returned",
                           !.result = calculate_confidence(str_lower(calls[t].text), ThreadEntity,
                                                           str_split(str_lower(calls[t].text)))]]
  /\ UNCHANGED <<self, hashSeed, pc, op, text, kb, entityArg, result, pinned, analyzer>>

NextThreads ==
  \E t \in Threads :
     \/ \E o \in ThreadOps, txt \in ThreadTexts : ThreadCall(t, o, txt)
     \/ ThreadProcessTextUrls(t)
     \/ ThreadProcessTextEntities(t)
     \/ ThreadProcessTextSnippets(t)
     \/ ThreadProcessTextCommands(t)
     \/ ThreadProcessTextReturn(t)
     \/ ThreadExtractUrls(t)
     \/ ThreadExtractEntitiesByCategory(t)
     \/ ThreadCalculateConfidence(t)

SpecThreads == InitThreads /\ [][NextThreads]_vars

-----------------------------------------------------------------------------
(* process_text on texts with fences and backquotes that do not pair up.     *)

MalformedPieces == {Backquote, Fence, "js\nabc\n", "abc", " "}

MaxPieces == 3

MalformedTexts == {Join(ps, "") : ps \in SeqsUpTo(MalformedPieces, MaxPieces)}

InitMalformed ==
  /\ self = NewProcessor
  /\ hashSeed \in HashSeeds
  /\ pc = "called"
  /\ op = "process_text"
  /\ text \in MalformedTexts
  /\ kb = <<>>
  /\ entityArg = ""
  /\ result = <<>>
  /\ pinned = NoCall
  /\ calls = NoCalls
  /\ analyzer = IdleAnalyzer

NextMalformed == ProcessText

SpecMalformed == InitMalformed /\ [][NextMalformed]_vars

-----------------------------------------------------------------------------
(* Construction.  __init__ calls setup_knowledge_bases and setup_patterns,   *)
(* which assign the attributes; the class assigns literals, a subclass may   *)
(* override either method and assign other values.                           *)

\* The patterns that re compiles: the ones the class lists.
Compiles(pattern) == pattern \in Range(NewProcessor.url_patterns) \cup Range(NewProcessor.cli_patterns)

\* A pattern that re.compile rejects.
BrokenPattern == "("

WithoutLexicon(name) ==
  [NewProcessor EXCEPT !.removed = {<<name, t>> : t \in BuiltLexicon[name]}]

\* What the setup methods may assign: the literals of the class, one lexicon left
\* empty, one pattern list left empty, or one pattern that does not compile.
Configurations ==
  {NewProcessor}
    \cup {WithoutLexicon(LexiconNames[n]) : n \in 1..Len(LexiconNames)}
    \cup { [NewProcessor EXCEPT !.url_patterns = <<>>],
           [NewProcessor EXCEPT !.cli_patterns = <<>>],
           [NewProcessor EXCEPT !.url_patterns = Append(@, BrokenPattern)],
           [NewProcessor EXCEPT !.cli_patterns = Append(@, BrokenPattern)] }

FirstUseTexts == {"see www.example.com", CommandLine, "We use Python"}

InitConstruct ==
  /\ self \in Configurations
  /\ hashSeed \in HashSeeds
  /\ pc = "new"
  /\ op = "__init__"
  /\ text = ""
  /\ kb = <<>>
  /\ entityArg = ""
  /\ result = <<>>
  /\ pinned = NoCall
  /\ calls = NoCalls
  /\ analyzer = IdleAnalyzer

\* __init__: the two setup methods run and the constructor returns; nothing is
\* checked and no pattern is compiled.
Construct ==
  /\ pc = "new"
  /\ pc' = "constructed"
  /\ UNCHANGED <<self, hashSeed, op, text, kb, entityArg, result, pinned, calls, analyzer>>

\* The first call of extract_urls: re.findall compiles each pattern when it reaches it
\* and raises re.error for one that does not compile.
FirstExtractUrls(t) ==
  /\ pc = "constructed"
  /\ op' = "extract_urls"
  /\ text' = t
  /\ IF \E i \in 1..Len(self.url_patterns) : ~Compiles(self.url_patterns[i])
     THEN pc' = "raised" /\ result' = <<>>
     ELSE pc' = "returned" /\ result' = extract_urls(self, t, hashSeed)
  /\ UNCHANGED <<self, hashSeed, kb, entityArg, pinned, calls, analyzer>>

\* The first call of extract_commands, likewise.
FirstExtractCommands(t) ==
  /\ pc = "constructed"
  /\ op' = "extract_commands"
  /\ text' = t
  /\ IF \E i \in 1..Len(self.cli_patterns) : ~Compiles(self.cli_patterns[i])
     THEN pc' = "raised" /\ result' = <<>>
     ELSE pc' = "returned" /\ result' = extract_commands(self, t)
  /\ UNCHANGED <<self, hashSeed, kb, entityArg, pinned, calls, analyzer>>

\* The first call of extract_entities_by_category with the languages lexicon.
FirstExtractEntities(t) ==
  /\ pc = "constructed"
  /\ op' = "extract_entities_by_category"
  /\ text' = t
  /\ pc' = "returned"
  /\ result' = extract_entities_by_category(
                 self, t, SetIteration(KnowledgeBase(self, "programming_languages"), hashSeed))
  /\ UNCHANGED <<self, hashSeed, kb, entityArg, pinned, calls, analyzer>>

NextConstruct ==
  \/ Construct
  \/ \E t \in FirstUseTexts : FirstExtractUrls(t)
  \/ \E t \in FirstUseTexts : FirstExtractCommands(t)
  \/ \E t \in FirstUseTexts : FirstExtractEntities(t)

SpecConstruct == InitConstruct /\ [][NextConstruct]_vars

-----------------------------------------------------------------------------
(* calculate_confidence called as extract_entities_by_category calls it:    *)
(* with the lower-cased text, the lower-cased entity and the text's words.   *)

ScoreEntities == {"react", "go", "c++", "c#", ".net core", "spring boot"}

\* An entity with the start of the text, a space, a word character or a sign on
\* either side.
ScoreEdges == {"", " ", "x", "+"}

BoundaryTexts == {a \o e \o b : a \in ScoreEdges, e \in ScoreEntities, b \in ScoreEdges}

\* An entity n times, as words of their own or run together into one word.
RepeatedTexts ==
  {Join([i \in 1..n |-> e], sep) \o sep :
     e \in ScoreEntities, n \in 1..MaxRepeat, sep \in {" ", "x"}}

\* The longest distance in tokens between a keyword and the token with the term.
MaxDistance == 6

\* A keyword and a token holding the term, among filler tokens.
ContextTexts ==
  {Join([n \in 1..(MaxDistance + 1) |->
           IF n = p[1] THEN "using" ELSE IF n = p[2] THEN p[3] ELSE "a"], " ") :
     p \in {q \in (1..(MaxDistance + 1)) \X (1..(MaxDistance + 1)) \X {"react", "preact"} :
              q[1] # q[2]}}

\* A term of two words, once or twice, with context keywords before and after it.
PhraseTexts ==
  {lead \o phrase \o again \o tail :
     lead   \in {"", "using ", "with the framework "},
     phrase \in {"spring boot", ".net core", "springboot"},
     again  \in {"", " spring boot"},
     tail   \in {"", " library", "s tool service"}}

ScoreTexts == BoundaryTexts \cup RepeatedTexts \cup ContextTexts \cup PhraseTexts

InitScore ==
  /\ self = NewProcessor
  /\ hashSeed \in HashSeeds
  /\ pc = "called"
  /\ op = "calculate_confidence"
  /\ text \in ScoreTexts
  /\ kb = <<>>
  /\ entityArg \in ScoreEntities
  /\ result = <<>>
  /\ pinned = NoCall
  /\ calls = NoCalls
  /\ analyzer = IdleAnalyzer

CalculateConfidence ==
  /\ pc = "called"
  /\ op = "calculate_confidence"
  /\ result' = calculate_confidence(text, entityArg, str_split(text))
  /\ pc' = "returned"
  /\ UNCHANGED <<self, hashSeed, op, text, kb, entityArg, pinned, calls, analyzer>>

NextScore == CalculateConfidence

SpecScore == InitScore /\ [][NextScore]_vars

-----------------------------------------------------------------------------
(* get_entity_category called with an entity, and extract_entities_by_category *)
(* called with self.file_formats on a text that names the entity.             *)

\* Every lexicon term, some terms in other casings and strings that are in no lexicon.
CategoryEntities == Range(AllTerms) \cup {"Python", "JSON", "GitHub", "GraphQL", "notaterm", ""}

InitCategory ==
  /\ self = NewProcessor
  /\ hashSeed \in HashSeeds
  /\ pc = "called"
  /\ op \in {"get_entity_category", "extract_entities_by_category"}
  /\ entityArg \in CategoryEntities
  /\ text = IF op = "get_entity_category" THEN "" ELSE "the " \o entityArg \o " file"
  /\ kb = IF op = "get_entity_category" THEN <<>>
          ELSE SetIteration(KnowledgeBase(self, "file_formats"), hashSeed)
  /\ result = <<>>
  /\ pinned = NoCall
  /\ calls = NoCalls
  /\ analyzer = IdleAnalyzer

GetEntityCategory ==
  /\ pc = "called"
  /\ op = "get_entity_category"
  /\ result' = get_entity_category(self, entityArg)
  /\ pc' = "returned"
  /\ UNCHANGED <<self, hashSeed, op, text, kb, entityArg, pinned, calls, analyzer>>

NextCategory ==
  \/ GetEntityCategory
  \/ ExtractEntitiesByCategory

SpecCategory == InitCategory /\ [][NextCategory]_vars

-----------------------------------------------------------------------------
(* YouTubeAnalyzer.analyze and analyze_batch (src/src/yt_hoover.py).  The  *)
(* YouTube Data API and the crawler are the environment: each lookup and   *)
(* each crawl has one of the outcomes the two wrappers tell apart.         *)

\* What a lookup meets: no API client, a response without items, an HttpError, another
\* exception, or an item, of which the model keeps the title and the description.
ApiResponses ==
  { [kind |-> "unavailable", title |-> "", description |-> ""],
    [kind |-> "no_items", title |-> "", description |-> ""],
    [kind |-> "http_error", title |-> "", description |-> ""],
    [kind |-> "exception", title |-> "", description |-> ""],
    [kind |-> "item", title |-> "Untitled", description |-> ""],
    [kind |-> "item", title |-> "Stack", description |-> "We use React"] }

\* YouTubeExtractor.get_video_metadata: {'error': ...} or the dict of a VideoMetadata
\* (the fields video_id, title and description; the others are copied likewise).
get_video_metadata(video_id, response) ==
  CASE response.kind = "unavailable" -> [error |-> "YouTube API not available"]
    [] response.kind = "no_items"    -> [error |-> "Video not found"]
    [] response.kind = "http_error"  -> [error |-> "YouTube API error: HttpError"]
    [] response.kind = "exception"   -> [error |-> "Unexpected error: Exception"]
    [] response.kind = "item"        ->
         [ video_id    |-> video_id,
           title       |-> response.title,
           description |-> response.description ]

\* What a crawl meets: no crawler, a result without success, an exception, or a result
\* with its markdown (None and '' are both given as "").
CrawlOutcomes ==
  { [kind |-> "unavailable", markdown |-> ""],
    [kind |-> "failed", markdown |-> ""],
    [kind |-> "exception", markdown |-> ""],
    [kind |-> "success", markdown |-> ""],
    [kind |-> "success", markdown |-> "npm install express"] }

\* ContentExtractor.extract_from_page
extract_from_page(crawl) ==
  CASE crawl.kind = "unavailable" -> [error |-> "Crawler not available"]
    [] crawl.kind = "failed"      -> [error |-> "Failed to crawl page"]
    [] crawl.kind = "exception"   -> [error |-> "Crawling error: Exception"]
    [] crawl.kind = "success"     ->
         [ page_content      |-> crawl.markdown,
           extracted_content |-> "",
           method            |-> "crawl4ai" ]

\* The AnalysisResult analyze creates from the dict of process_text.
analysis_result(video_id, metadata, analysis, extraction_method, timestamp) ==
  [ video_id                 |-> video_id,
    metadata                 |-> metadata,
    urls                     |-> analysis.urls,
    tools_and_software       |-> analysis.tools_and_software,
    programming_languages    |-> analysis.programming_languages,
    frameworks_and_libraries |-> analysis.frameworks_and_libraries,
    platforms_and_services   |-> analysis.platforms_and_services,
    companies_and_brands     |-> analysis.companies_and_brands,
    file_formats             |-> analysis.file_formats,
    apis_and_protocols       |-> analysis.apis_and_protocols,
    technical_concepts       |-> analysis.technical_concepts,
    extraction_method        |-> extraction_method,
    analysis_timestamp       |-> timestamp,
    confidence_scores        |-> analysis.confidence_scores ]

\* The AnalysisResult analyze_batch creates in its except branch.
error_result(video_input, e, timestamp) ==
  [ video_id                 |-> video_input,
    metadata                 |-> [ video_id    |-> video_input,
                                   title       |-> "Error: " \o e,
                                   description |-> "" ],
    urls                     |-> <<>>,
    tools_and_software       |-> <<>>,
    programming_languages    |-> <<>>,
    frameworks_and_libraries |-> <<>>,
    platforms_and_services   |-> <<>>,
    companies_and_brands     |-> <<>>,
    file_formats             |-> <<>>,
    apis_and_protocols       |-> <<>>,
    technical_concepts       |-> <<>>,
    extraction_method        |-> "error",
    analysis_timestamp       |-> timestamp,
    confidence_scores        |-> [k \in {} |-> 0] ]

\* The video_input of the analyze call in progress.
VideoInput(a) == a.inputs[a.index]

\* raise ... inside analyze
raise(a, message) == [a EXCEPT !.pc = "raised", !.exception = message]

\* The crawl result taken for content whenever it reports no error, empty or not.
analyze_after_crawl_taking_empty_content(a, page_content) ==
  IF "error" \notin DOMAIN page_content
  THEN [a EXCEPT !.page_content = page_content,
                 !.content_to_analyze = @ \o "\n\n" \o page_content.page_content,
                 !.extraction_method = "youtube_api_plus_crawling"]
  ELSE [a EXCEPT !.page_content = page_content]

\* analyze from the return of extract_from_page to the call of process_text.
analyze_after_crawl(a, page_content) ==
  IF "error" \notin DOMAIN page_content /\ page_content.page_content # ""
  THEN [a EXCEPT !.page_content = page_content,
                 !.content_to_analyze = @ \o "\n\n" \o page_content.page_content,
                 !.extraction_method = "youtube_api_plus_crawling"]
  ELSE [a EXCEPT !.page_content = page_content]

\* The except branch going on to the next input without a result for this one.
analyze_batch_except_dropping_the_input(a) == [a EXCEPT !.pc = "loop"]

\* The except branch of analyze_batch: an error result is appended, the loop goes on.
analyze_batch_except(a) ==
  [a EXCEPT !.results = Append(@, error_result(VideoInput(a), a.exception, a.clock)),
            !.clock = @ + 1,
            !.pc = "loop"]

\* The inputs given to analyze and analyze_batch: a url, a bare id, a string that is
\* neither; and the longest list given to analyze_batch.
VideoInputs == {"https://youtu.be/abcdefghijk", TestVideoId, "not a video"}

MaxBatch == 2

\* analyze is called with an input, or analyze_batch with a list of distinct inputs.
InitAnalyzer ==
  /\ self = NewProcessor
  /\ hashSeed \in HashSeeds
  /\ pc = "called"
  /\ op \in {"analyze", "analyze_batch"}
  /\ text = ""
  /\ kb = <<>>
  /\ entityArg = ""
  /\ result = <<>>
  /\ pinned = NoCall
  /\ calls = NoCalls
  /\ analyzer \in
       IF op = "analyze"
       THEN {[IdleAnalyzer EXCEPT !.inputs = <<v>>, !.index = 1, !.pc = "extract_video_id"] :
               v \in VideoInputs}
       ELSE {[IdleAnalyzer EXCEPT !.inputs = ins, !.pc = "loop"] :
               ins \in {s \in SeqsUpTo(VideoInputs, MaxBatch) :
                          \A i, j \in DOMAIN s : s[i] = s[j] => i = j}}

\* for video_input in video_inputs: result = await self.analyze(video_input)
AnalyzeBatchNext ==
  /\ op = "analyze_batch"
  /\ analyzer.pc = "loop"
  /\ analyzer.index < Len(analyzer.inputs)
  /\ analyzer' = [IdleAnalyzer EXCEPT !.inputs = analyzer.inputs,
                                      !.index = analyzer.index + 1,
                                      !.results = analyzer.results,
                                      !.clock = analyzer.clock,
                                      !.pc = "extract_video_id"]
  /\ UNCHANGED <<self, hashSeed, pc, op, text, kb, entityArg, result, pinned, calls>>

\* analyze: the video id is extracted, or ValueError is raised.
AnalyzeExtractVideoId ==
  /\ op \in {"analyze", "analyze_batch"}
  /\ analyzer.pc = "extract_video_id"
  /\ LET video_id == extract_video_id(VideoInput(analyzer))
     IN  analyzer' =
           IF video_id.is_none \/ video_id.value = ""
           THEN raise(analyzer, "Invalid YouTube URL or video ID: " \o VideoInput(analyzer))
           ELSE [analyzer EXCEPT !.video_id = video_id.value, !.pc = "get_video_metadata"]
  /\ pc' = IF op = "analyze" /\ analyzer'.pc = "raised" THEN "raised" ELSE pc
  /\ UNCHANGED <<self, hashSeed, op, text, kb, entityArg, result, pinned, calls>>

\* analyze: the metadata is looked up; an error dict raises, otherwise the description
\* becomes the content to analyze.
AnalyzeGetVideoMetadata ==
  /\ op \in {"analyze", "analyze_batch"}
  /\ analyzer.pc = "get_video_metadata"
  /\ \E response \in ApiResponses :
       LET metadata_dict == get_video_metadata(analyzer.video_id, response)
       IN  analyzer' =
             IF "error" \in DOMAIN metadata_dict
             THEN [raise(analyzer, "Failed to get video metadata: " \o metadata_dict.error)
                     EXCEPT !.metadata_dict = metadata_dict]
             ELSE [analyzer EXCEPT !.metadata_dict = metadata_dict,
                                   !.content_to_analyze = metadata_dict.description,
                                   !.extraction_method = "youtube_api_description",
                                   !.pc = "extract_from_page"]
  /\ pc' = IF op = "analyze" /\ analyzer'.pc = "raised" THEN "raised" ELSE pc
  /\ UNCHANGED <<self, hashSeed, op, text, kb, entityArg, result, pinned, calls>>

\* analyze: the page is crawled and its content, if any, appended.
AnalyzeExtractFromPage ==
  /\ op \in {"analyze", "analyze_batch"}
  /\ analyzer.pc = "extract_from_page"
  /\ \E crawl \in CrawlOutcomes :
       analyzer' = [analyze_after_crawl(analyzer, extract_from_page(crawl))
                      EXCEPT !.crawls = @ + 1, !.pc = "process_text"]
  /\ UNCHANGED <<self, hashSeed, pc, op, text, kb, entityArg, result, pinned, calls>>

\* analyze: the content is processed and the result returned.
AnalyzeProcessText ==
  /\ op \in {"analyze", "analyze_batch"}
  /\ analyzer.pc = "process_text"
  /\ LET analysis == process_text(self, analyzer.content_to_analyze, hashSeed)
         value    == analysis_result(analyzer.video_id, analyzer.metadata_dict, analysis,
                                     analyzer.extraction_method, analyzer.clock)
     IN  /\ analyzer' = [analyzer EXCEPT !.value = value,
                                         !.processed = @ + 1,
                                         !.clock = @ + 1,
                                         !.pc = "returned"]
         /\ result' = IF op = "analyze" THEN value ELSE result
  /\ pc' = IF op = "analyze" THEN "returned" ELSE pc
  /\ UNCHANGED <<self, hashSeed, op, text, kb, entityArg, pinned, calls>>

\* analyze_batch: results.append(result)
AnalyzeBatchAppend ==
  /\ op = "analyze_batch"
  /\ analyzer.pc = "returned"
  /\ analyzer' = [analyzer EXCEPT !.results = Append(@, analyzer.value), !.pc = "loop"]
  /\ UNCHANGED <<self, hashSeed, pc, op, text, kb, entityArg, result, pinned, calls>>

\* analyze_batch: except Exception as e
AnalyzeBatchExcept ==
  /\ op = "analyze_batch"
  /\ analyzer.pc = "raised"
  /\ analyzer' = analyze_batch_except(analyzer)
  /\ UNCHANGED <<self, hashSeed, pc, op, text, kb, entityArg, result, pinned, calls>>

\* analyze_batch: return results
AnalyzeBatchReturn ==
  /\ op = "analyze_batch"
  /\ analyzer.pc = "loop"
  /\ analyzer.index = Len(analyzer.inputs)
  /\ analyzer' = [analyzer EXCEPT !.pc = "done"]
  /\ result' = analyzer.results
  /\ pc' = "returned"
  /\ UNCHANGED <<self, hashSeed, op, text, kb, entityArg, pinned, calls>>

NextAnalyzer ==
  \/ AnalyzeBatchNext
  \/ AnalyzeExtractVideoId
  \/ AnalyzeGetVideoMetadata
  \/ AnalyzeExtractFromPage
  \/ AnalyzeProcessText
  \/ AnalyzeBatchAppend
  \/ AnalyzeBatchExcept
  \/ AnalyzeBatchReturn

SpecAnalyzer == InitAnalyzer /\ [][NextAnalyzer]_vars

-----------------------------------------------------------------------------
(* Properties                                                              *)

Returned(method) == pc = "returned" /\ op = method

CollectionFields ==
  { "urls", "tools_and_software", "programming_languages", "frameworks_and_libraries",
    "platforms_and_services", "companies_and_brands", "file_formats",
    "apis_and_protocols", "technical_concepts", "code_snippets", "commands" }

ScoreKeys == {"url_extraction", "entity_extraction", "code_detection", "command_detection"}

\* C1: process_text called with the empty string returns a result in which every
\* collection is empty and confidence_scores has the four entries url_extraction,
\* entity_extraction, code_detection and command_detection, all 0.0.
C1_EmptyTextAllZeroScores ==
  (Returned("process_text") /\ text = "") =>
     /\ \A f \in CollectionFields : result[f] = <<>>
     /\ DOMAIN result.confidence_scores = ScoreKeys
     /\ \A k \in ScoreKeys : result.confidence_scores[k].num = 0

InUnitInterval(c) == c >= 0 /\ c <= 1000

AllInUnitInterval(items) == \A i \in 1..Len(items) : InUnitInterval(items[i].confidence)

\* C2: for every input text every confidence process_text produces lies in [0.0, 1.0]:
\* that of each entity of tools_and_software and of each entity the category matcher
\* returns for any of the seven lexicons, of each code snippet, of each command, and
\* each summary score.
C2_ConfidenceInUnitInterval ==
  Returned("process_text") =>
     /\ AllInUnitInterval(result.tools_and_software)
     /\ AllInUnitInterval(result.code_snippets)
     /\ AllInUnitInterval(result.commands)
     /\ \A k \in DOMAIN result.confidence_scores :
           LET score == result.confidence_scores[k]
           IN  score.den > 0 /\ score.num >= 0 /\ score.num <= 1000 * score.den
     /\ \A n \in 1..Len(LexiconNames) :
           AllInUnitInterval(
             extract_entities_by_category(
               self, text, SetIteration(KnowledgeBase(self, LexiconNames[n]), hashSeed)))

\* A term that is a word of its own, occurs four times and follows a context keyword:
\* its bonuses add up to 1.1 and its confidence is 1.0.
C2_Witness ==
  /\ Returned("process_text")
  /\ text = "using" \o Repeat(" react", 4)
  /\ \E i \in 1..Len(result.tools_and_software) :
        /\ result.tools_and_software[i].text = "react"
        /\ result.tools_and_software[i].confidence = 1000

\* C3: two calls of process_text with the same text on the same processor, whatever
\* calls were made between them, return the same result: the same members in the same
\* order in every list and the same confidence values.
C3_SameTextSameResult ==
  (Returned("process_text") /\ pinned.set /\ pinned.text = text) => result = pinned.result

\* A text with urls, entities and scores processed again after it was kept.
C3_Witness ==
  /\ Returned("process_text")
  /\ pinned.set
  /\ pinned.text = text
  /\ Len(result.urls) > 1
  /\ result.platforms_and_services # <<>>

Key(term) == str_lower(term)

\* The index at which the iteration of the knowledge base first yields a term with the key.
FirstSeen(it, key) ==
  CHOOSE i \in 1..Len(it) : Key(it[i]) = key /\ \A j \in 1..(i - 1) : Key(it[j]) # key

\* C4: extract_entities_by_category returns at most one entity per lexicon term compared
\* case-insensitively, however often the term occurs; of several candidates for a term
\* one of highest confidence is kept; a term occurring 3 times yields exactly one entity.
C4_OneEntityPerTerm ==
  Returned("extract_entities_by_category") =>
     /\ \A i, j \in 1..Len(result) :
           i # j => Key(result[i].text) # Key(result[j].text)
     /\ \A i \in 1..Len(result) :
           \A c \in Range(match_candidates(self, text, kb)) :
              Key(c.text) = Key(result[i].text) => c.confidence <= result[i].confidence
     /\ \A t \in Range(kb) :
           str_count(str_lower(text), Key(t)) = 3 =>
              Cardinality({i \in 1..Len(result) : Key(result[i].text) = Key(t)}) = 1

\* A knowledge base holding a term in two casings, and a text with three occurrences.
C4_Witness ==
  /\ Returned("extract_entities_by_category")
  /\ {"go", "Go"} \subseteq Range(kb)
  /\ str_count(str_lower(text), "go") = 3
  /\ Cardinality({i \in 1..Len(result) : Key(result[i].text) = "go"}) = 1

\* C5: the list extract_entities_by_category returns is in non-increasing order of
\* confidence, and entities of equal confidence are in the order in which the iteration
\* of the lexicon first met their terms.
C5_SortedByConfidenceStable ==
  Returned("extract_entities_by_category") =>
     \A i, j \in 1..Len(result) :
        i < j =>
          /\ result[i].confidence >= result[j].confidence
          /\ result[i].confidence = result[j].confidence =>
                FirstSeen(kb, Key(result[i].text)) < FirstSeen(kb, Key(result[j].text))

\* Three entities: the term iterated first has the lowest confidence and is returned
\* last, the other two have equal confidence and keep their order.
C5_Witness ==
  /\ Returned("extract_entities_by_category")
  /\ Len(result) = 3
  /\ result[1].confidence = result[2].confidence
  /\ result[2].confidence > result[3].confidence
  /\ result[3].text = kb[1]
  /\ result[1].text = kb[2]

C7_LanguageSpelledAsInText ==
  (Returned("process_text") /\ str_contains(text, "Python")) =>
     /\ "Python" \in Range(result.programming_languages)
     /\ (str_contains(text, "React") \/ str_contains(text, "MongoDB")) =>
           result.tools_and_software # <<>>

OccursDelimited(s, u) ==
  \E i \in 1..(Len(s) - Len(u) + 1) :
     /\ LiteralAt(s, i, u)
     /\ i = 1 \/ CharAt(s, i - 1) \in Whitespace
     /\ i + Len(u) > Len(s) \/ CharAt(s, i + Len(u)) \in Whitespace

C9_FencedBlockIsOneSnippet ==
  Returned("process_text") =>
     /\ text = FencedBlockText =>
           result.code_snippets =
             << [ type |-> "code_block", language |-> "javascript",
                  code |-> "const x = 1;", confidence |-> 900 ] >>
     /\ text = PlainFencedBlockText =>
           \E i \in 1..Len(result.code_snippets) :
              /\ result.code_snippets[i].type = "code_block"
              /\ result.code_snippets[i].language = "unknown"

\* The command line occurs in s at a line start or after whitespace.
Invoked(s, line) ==
  \E i \in 1..(Len(s) - Len(line) + 1) :
     LiteralAt(s, i, line) /\ (AtLineStart(s, i) \/ CharAt(s, i - 1) \in Whitespace)

\* C10: for every text containing the command line `npm install express mongoose`,
\* commands has an entry of type cli_command and confidence 0.8 whose command carries
\* the invocation taken from the text, the tool name followed by its subcommand.
C10_CommandCarriesInvocation ==
  (Returned("process_text") /\ Invoked(text, CommandLine)) =>
     \E i \in 1..Len(result.commands) :
        /\ result.commands[i].type = "cli_command"
        /\ result.commands[i].confidence = 800
        /\ str_contains(result.commands[i].command, "npm install")

ResultFields == CollectionFields \union {"confidence_scores"}

\* C11: for every input text, the empty one included, the result of process_text has
\* exactly the twelve fields urls, tools_and_software, the seven category lists,
\* code_snippets, commands and confidence_scores, and confidence_scores has exactly the
\* four keys url_extraction, entity_extraction, code_detection and command_detection.
C11_StableFieldSet ==
  Returned("process_text") =>
     /\ DOMAIN result = ResultFields
     /\ DOMAIN result.confidence_scores = ScoreKeys

\* The places of s where an accepted url form stands: one of youtube.com/watch?v=,
\* youtu.be/ and youtube.com/embed/, followed by a character of an id.
VideoUrlFormAt(s, i) ==
  \E n \in 1..Len(video_url_prefixes) :
     LET p == video_url_prefixes[n]
     IN  /\ i + Len(p) <= Len(s)
         /\ SubSeq(s, i, i + Len(p) - 1) = p
         /\ CharAt(s, i + Len(p)) \notin video_id_stops

\* What follows the url form at i, up to the first '&', '?', '#' or newline.
VideoUrlValueAt(s, i) ==
  LET n     == CHOOSE m \in 1..Len(video_url_prefixes) :
                 /\ i + Len(video_url_prefixes[m]) <= Len(s)
                 /\ SubSeq(s, i, i + Len(video_url_prefixes[m]) - 1) = video_url_prefixes[m]
      start == i + Len(video_url_prefixes[n])
      stops == {j \in start..Len(s) : CharAt(s, j) \in video_id_stops}
      last  == IF stops = {} THEN Len(s) ELSE (CHOOSE j \in stops : \A k \in stops : j <= k) - 1
  IN  SubSeq(s, start, last)

IsBareVideoId(s) == Len(s) = 11 /\ \A i \in 1..11 : CharAt(s, i) \in video_id_chars

\* C12: extract_video_id returns the video id of each accepted input form: what follows
\* v= in a youtube.com/watch?v= url, or follows youtu.be/ or youtube.com/embed/, up to
\* the first '&', '?', '#' or newline (of the leftmost such form); the input itself
\* when it is a bare 11-character id over [A-Za-z0-9_-]; and None when neither pattern
\* matches (the second pattern also matches a bare id followed by one final newline).
C12_VideoIdOfAcceptedForms ==
  Returned("extract_video_id") =>
     LET forms == {i \in 1..Len(text) : VideoUrlFormAt(text, i)}
     IN  /\ forms # {} =>
               result = Some(VideoUrlValueAt(text, CHOOSE i \in forms : \A j \in forms : i <= j))
         /\ (forms = {} /\ IsBareVideoId(text)) => result = Some(text)
         /\ (forms = {} /\ ~IsBareVideoId(text)
               /\ ~(\E id \in VideoIds : IsBareVideoId(id) /\ text = id \o "\n")) =>
               result = None

\* A watch url with a further parameter, a short url with a fragment and a bare id.
C12_Witness ==
  /\ Returned("extract_video_id")
  /\ text = "https://www.youtube.com/watch?v=" \o TestVideoId \o "&t=42"
  /\ result = Some(TestVideoId)

C12_WitnessNone ==
  /\ Returned("extract_video_id")
  /\ text = "https://www.youtube.com/watch?feature=share&v=" \o TestVideoId
  /\ result = None

\* What the call of a thread returns when it runs alone on a new processor.
ResultAlone(c) ==
  CASE c.op = "process_text" -> process_text(NewProcessor, c.text, hashSeed)
    [] c.op = "extract_urls" -> extract_urls(NewProcessor, c.text, hashSeed)
    [] c.op = "extract_entities_by_category" ->
         extract_entities_by_category(
           NewProcessor, c.text,
           SetIteration(KnowledgeBase(NewProcessor, ThreadLexicon), hashSeed))
    [] c.op = "calculate_confidence" ->
         calculate_confidence(str_lower(c.text), ThreadEntity, str_split(str_lower(c.text)))

\* C13: no public operation writes state of the processor: the lexicon sets and the
\* pattern lists are as constructed after any sequence of calls, and in every
\* interleaving of the calls of two threads on one shared processor each call returns
\* what it returns when run alone.
C13_NoWriteNoInterference ==
  /\ self = NewProcessor
  /\ \A t \in Threads :
        calls[t].pc = "returned" => calls[t].result = ResultAlone(calls[t])

\* One thread has returned from process_text while the other is inside its own call of
\* process_text with another text.
C13_Witness ==
  /\ calls[1].op = "process_text"
  /\ calls[1].pc = "returned"
  /\ calls[1].result.urls # <<>>
  /\ calls[2].op = "process_text"
  /\ calls[2].pc = "entities"
  /\ calls[2].text = CommandLine

Backquotes(s) == Cardinality({i \in 1..Len(s) : CharAt(s, i) = Backquote})

\* s opens a fence that nothing closes: one fence, and after it, at most one further
\* backquote (a stray one).
UnmatchedFence(s) ==
  /\ str_count(s, Fence) = 1
  /\ Backquotes(s) <= Len(Fence) + 1

\* C14: process_text is total over strings: for every text, also one with an unmatched
\* opening fence, an odd number of backquotes or nothing to recognise, it returns a
\* result with a list of code snippets, each of a known type with its code; an
\* unmatched fence or a stray single backquote contributes no code snippet.
C14_MalformedMarkupIsNoMatch ==
  Returned("process_text") =>
     /\ "code_snippets" \in DOMAIN result
     /\ \A i \in 1..Len(result.code_snippets) :
           /\ result.code_snippets[i].type \in {"code_block", "inline_code"}
           /\ result.code_snippets[i].code # ""
     /\ Backquotes(text) = 1 => result.code_snippets = <<>>
     /\ UnmatchedFence(text) => result.code_snippets = <<>>

\* A lexicon or a pattern list is empty, or a pattern does not compile.
Defective(p) ==
  \/ \E n \in 1..Len(LexiconNames) : KnowledgeBase(p, LexiconNames[n]) = {}
  \/ p.url_patterns = <<>>
  \/ p.cli_patterns = <<>>
  \/ \E i \in 1..Len(p.url_patterns) : ~Compiles(p.url_patterns[i])
  \/ \E i \in 1..Len(p.cli_patterns) : ~Compiles(p.cli_patterns[i])

ConfidenceOf(boundary, repetition, context) ==
  LET c1 == IF boundary THEN FloatAdd(500, 300) ELSE 500
      c2 == IF repetition > 0 THEN FloatAdd(c1, repetition) ELSE c1
      c3 == IF context THEN FloatAdd(c2, 100) ELSE c2
  IN  IF c3 > 1000 THEN 1000 ELSE c3

RepetitionOf(txt, e) ==
  IF str_count(txt, e) > 1 THEN repetition_bonus(str_count(txt, e)) ELSE 0

\* e occurs in s with a non-word character or the edge of s right before and right after.
OccursAsWord(s, e) ==
  \E i \in 1..(Len(s) - Len(e) + 1) :
     /\ SubSeq(s, i, i + Len(e) - 1) = e
     /\ i = 1 \/ CharAt(s, i - 1) \notin WordChars
     /\ i + Len(e) > Len(s) \/ CharAt(s, i + Len(e)) \notin WordChars

\* C16: calculate_confidence adds the +0.3 word-boundary bonus exactly when the term
\* occurs at least once with a non-word character or the edge of the text right before
\* and right after it, for every term, also one that begins or ends with a non-word
\* character such as 'c++', 'c#' and '.net core'.
C16_BoundaryBonusForWholeWord ==
  Returned("calculate_confidence") =>
     result = ConfidenceOf(OccursAsWord(text, entityArg),
                           RepetitionOf(text, entityArg),
                           context_clue(entityArg, str_split(text)))

\* The repetition bonus in thousandths: nothing for n <= 1, 0.10 for 2, 0.15 for 3 and
\* 0.20 for every n >= 4.
ClaimedRepetition(n) ==
  IF n <= 1 THEN 0 ELSE IF n = 2 THEN 100 ELSE IF n = 3 THEN 150 ELSE 200

\* C17: calculate_confidence adds a repetition bonus of min(0.2, n * 0.05), n being the
\* number of non-overlapping occurrences of the term in the text, and nothing when
\* n <= 1: 0 for n = 1, 0.10 for n = 2, 0.15 for n = 3 and 0.20 for every n >= 4.
C17_RepetitionBonus ==
  Returned("calculate_confidence") =>
     result = ConfidenceOf(word_boundary_search(text, entityArg),
                           ClaimedRepetition(str_count(text, entityArg)),
                           context_clue(entityArg, str_split(text)))

\* A term run together five times into one word: no boundary bonus, no context, and
\* the capped bonus 0.2 on the base 0.5.
C17_Witness ==
  /\ Returned("calculate_confidence")
  /\ str_count(text, entityArg) = 5
  /\ ~word_boundary_search(text, entityArg)
  /\ result = 700

\* The bonus 0.15 of three occurrences, on top of the boundary bonus.
C17_WitnessThree ==
  /\ Returned("calculate_confidence")
  /\ str_count(text, entityArg) = 3
  /\ result = 951

\* Some token of words holds the term and has a keyword among the 5 tokens before it
\* or the 5 tokens after it.
KeywordWithinFive(e, words) ==
  \E p \in 1..Len(words) :
     /\ str_contains(words[p], e)
     /\ \E q \in 1..Len(words) :
           /\ q # p
           /\ q >= p - 5
           /\ q <= p + 5
           /\ words[q] \in Range(technical_keywords)

\* C18: calculate_confidence adds the +0.1 context bonus, once at most, exactly when
\* some whitespace-delimited token that holds the term has one of the keywords using,
\* with, framework, library, tool, platform, service among the 5 tokens before it or the
\* 5 tokens after it; a keyword exactly 5 tokens after the term counts as one exactly 5
\* tokens before it does.
C18_ContextWindowSymmetric ==
  Returned("calculate_confidence") =>
     result = ConfidenceOf(word_boundary_search(text, entityArg),
                           RepetitionOf(text, entityArg),
                           KeywordWithinFive(entityArg, str_split(text)))

CategoryLists ==
  << "programming_languages", "frameworks_and_libraries", "platforms_and_services",
     "companies_and_brands", "file_formats", "apis_and_protocols", "technical_concepts" >>

\* C19: the categories are mutually exclusive: every lexicon term is in exactly one of
\* the seven lexicons, and no term is in more than one of the seven category lists of a
\* result of process_text.
C19_CategoriesMutuallyExclusive ==
  (Returned("process_text") /\ text # "") =>
     \A m, n \in 1..Len(CategoryLists) :
        m # n =>
          /\ Range(result[CategoryLists[m]]) \cap Range(result[CategoryLists[n]]) = {}
          /\ KnowledgeBase(self, LexiconNames[m]) \cap KnowledgeBase(self, LexiconNames[n]) = {}

CategoryNames ==
  << "programming_language", "framework_library", "platform_service", "company_brand",
     "file_format", "api_protocol", "technical_concept" >>

\* The category of the first lexicon, in the fixed order, that holds the lower-cased
\* term; 'unknown' when none does.
FirstCategory(p, e) ==
  LET holds == {n \in 1..Len(LexiconNames) : str_lower(e) \in KnowledgeBase(p, LexiconNames[n])}
  IN  IF holds = {} THEN "unknown"
      ELSE CategoryNames[CHOOSE n \in holds : \A m \in holds : n <= m]

\* C20: get_entity_category returns the first category, in the order
\* programming_language, framework_library, platform_service, company_brand,
\* file_format, api_protocol, technical_concept, whose lexicon holds the lower-cased
\* term, and 'unknown' when none does; so the category of an entity matched against one
\* lexicon can be that of another (a term in both the languages and the file formats
\* is labelled programming_language).
C20_FirstCategoryInFixedOrder ==
  /\ Returned("get_entity_category") => result = FirstCategory(self, entityArg)
  /\ Returned("extract_entities_by_category") =>
        \A i \in 1..Len(result) : result[i].category = FirstCategory(self, result[i].text)

\* A term of both lexicons, matched against the file formats, labelled as a language.
C20_Witness ==
  /\ Returned("extract_entities_by_category")
  /\ entityArg = "json"
  /\ \E i \in 1..Len(result) :
        /\ result[i].text = "json"
        /\ result[i].text \in KnowledgeBase(self, "file_formats")
        /\ result[i].category = "programming_language"

\* A string of no lexicon, and a term given with capitals.
C20_WitnessUnknown ==
  /\ Returned("get_entity_category")
  /\ \/ entityArg = "notaterm" /\ result = "unknown"
     \/ entityArg = "GitHub" /\ result = "platform_service"

\* The matches of all url patterns in s, as re.findall returns them.
UrlMatches(p, s) ==
  UNION {Range(url_findall(p.url_patterns[k], s, 1)) : k \in 1..Len(p.url_patterns)}

\* C21: every string returned by extract_urls is distinct from the others, has at least
\* 6 characters, does not end with one of . , ; : ! ? and is a match of a url pattern from
\* which only trailing characters of that set were removed; a match shorter than 6
\* characters after that trimming is not returned.
C21_UrlIsMatchTrimmedAtEnd ==
  Returned("extract_urls") =>
    /\ \A i, j \in 1..Len(result) : i # j => result[i] # result[j]
    /\ \A i \in 1..Len(result) :
         /\ Len(result[i]) >= MinUrlLength + 1
         /\ CharAt(result[i], Len(result[i])) \notin TrailingPunctuation
         /\ \E m \in UrlMatches(self, text) : result[i] = str_rstrip(m, TrailingPunctuation)
    /\ \A m \in UrlMatches(self, text) :
         Len(str_rstrip(m, TrailingPunctuation)) < MinUrlLength + 1
           => str_rstrip(m, TrailingPunctuation) \notin Range(result)

\* The spans of s delimited by single backquotes, first to last: from a backquote that no
\* earlier span used, the characters up to the next backquote, when there is at least one.
RECURSIVE BackquotedSpans(_, _)
BackquotedSpans(s, from) ==
  LET opens == {i \in from..Len(s) : CharAt(s, i) = Backquote}
  IN  IF opens = {} THEN <<>>
      ELSE LET a == CHOOSE i \in opens : \A k \in opens : i <= k
               closes == {i \in opens : i > a}
           IN  IF closes = {} THEN <<>>
               ELSE LET b == CHOOSE i \in closes : \A k \in closes : i <= k
                    IN  IF b = a + 1 THEN BackquotedSpans(s, b)
                        ELSE <<SubSeq(s, a + 1, b - 1)>> \o BackquotedSpans(s, b + 1)

InlineEntries(snippets) == SelectSeq(snippets, LAMBDA e : e.type = "inline_code")

\* C22: extract_code_snippets emits one inline_code entry, with language 'unknown',
\* confidence 0.6 and the trimmed span as code, for every span delimited by single
\* backquotes whose trimmed length is greater than 2, in the order of the spans, and no
\* entry for a span whose trimmed length is 2 or less.
C22_InlineEntryPerLongSpan ==
  Returned("extract_code_snippets") =>
    LET long == SelectSeq(BackquotedSpans(text, 1),
                          LAMBDA g : Len(str_strip(g, Whitespace)) > 2)
    IN  InlineEntries(result) =
          [i \in 1..Len(long) |->
             [ type       |-> "inline_code",
               language   |-> "unknown",
               code       |-> str_strip(long[i], Whitespace),
               confidence |-> 600 ]]

\* A text with a span of 3 characters after trimming and a span of 2: one entry.
C22_Witness ==
  /\ Returned("extract_code_snippets")
  /\ \E g \in Range(BackquotedSpans(text, 1)) : Len(str_strip(g, Whitespace)) = 2
  /\ \E g \in Range(BackquotedSpans(text, 1)) :
       Len(g) > 3 /\ Len(str_strip(g, Whitespace)) = 3
  /\ Len(InlineEntries(result)) = 1

\* What the category matcher returns for the text of the call and one lexicon of self.
MatcherOutput(name) ==
  extract_entities_by_category(self, text, SetIteration(KnowledgeBase(self, name), hashSeed))

HasToolKeyword(term) == \E k \in {"tool", "software", "app", "platform"} : str_contains(term, k)

\* C23: for non-empty text, tools_and_software is the framework matches, then the
\* platform matches, then the technical-concept matches whose text contains tool,
\* software, app or platform, each part in the matcher's order; nothing else is added:
\* every entry is a term of the framework, platform or technical-concept lexicon.
C23_ToolsAreFrameworksPlatformsKeywordedConcepts ==
  (Returned("process_text") /\ text # "") =>
    /\ result.tools_and_software =
         MatcherOutput("frameworks_libraries") \o MatcherOutput("platforms_services")
         \o SelectSeq(MatcherOutput("technical_concepts"), LAMBDA e : HasToolKeyword(e.text))
    /\ \A i \in 1..Len(result.tools_and_software) :
         result.tools_and_software[i].text \in
           KnowledgeBase(self, "frameworks_libraries")
           \cup KnowledgeBase(self, "platforms_services")
           \cup KnowledgeBase(self, "technical_concepts")

\* A text with two frameworks, a platform, two concepts with a keyword and one without,
\* and a language.
C23_Witness ==
  /\ Returned("process_text")
  /\ Len(result.frameworks_and_libraries) = 2
  /\ Len(result.platforms_and_services) = 1
  /\ Len(result.tools_and_software) = 5
  /\ "machine learning" \in Range(result.technical_concepts)
  /\ result.programming_languages # <<>>

\* The confidences of the first n entries of a list, added up.
RECURSIVE TotalConfidence(_, _)
TotalConfidence(items, n) ==
  IF n = 0 THEN 0 ELSE TotalConfidence(items, n - 1) + items[n].confidence

\* The quotient total / max(length, 1) of a list; 0 / 1 for the empty list.
GuardedMean(items) ==
  [ num |-> TotalConfidence(items, Len(items)),
    den |-> IF Len(items) = 0 THEN 1 ELSE Len(items) ]

\* C24: for non-empty text, url_extraction is 0.95 when a url was found and 0.0 otherwise;
\* entity_extraction, code_detection and command_detection are the sum of the confidences
\* of tools_and_software, code_snippets and commands divided by max(length, 1): 0.0 for
\* an empty list, and the divisor is never zero.
C24_SummaryScores ==
  (Returned("process_text") /\ text # "") =>
    LET scores == result.confidence_scores
    IN  /\ scores.url_extraction =
             [num |-> IF Len(result.urls) >= 1 THEN 950 ELSE 0, den |-> 1]
        /\ scores.entity_extraction = GuardedMean(result.tools_and_software)
        /\ scores.code_detection = GuardedMean(result.code_snippets)
        /\ scores.command_detection = GuardedMean(result.commands)
        /\ \A k \in DOMAIN scores : scores[k].den >= 1
        /\ result.tools_and_software = <<>> => scores.entity_extraction.num = 0
        /\ result.code_snippets = <<>> => scores.code_detection.num = 0
        /\ result.commands = <<>> => scores.command_detection.num = 0

\* Entities of different confidences are averaged while no url and no command was found.
C24_Witness ==
  /\ Returned("process_text")
  /\ \E i, j \in 1..Len(result.tools_and_software) :
       result.tools_and_software[i].confidence # result.tools_and_software[j].confidence
  /\ result.urls = <<>>
  /\ result.commands = <<>>
  /\ result.confidence_scores.command_detection = [num |-> 0, den |-> 1]

\* Urls, commands and entities were found and no code.
C24_WitnessFound ==
  /\ Returned("process_text")
  /\ result.urls # <<>>
  /\ result.confidence_scores.url_extraction.num = 950
  /\ result.code_snippets = <<>>

\* C25: each of the seven single-category lists of the result is the text fields of the
\* output of the category's matcher, in the matcher's confidence-descending order and
\* with nothing else; frameworks_and_libraries followed by platforms_and_services is the
\* text fields of the leading entries of tools_and_software, and these entries are the
\* matchers' entries with their confidence and category.
C25_ListsAreMatcherTexts ==
  Returned("process_text") =>
    /\ \A n \in 1..Len(LexiconNames) :
         LET out  == MatcherOutput(LexiconNames[n])
             list == result[CategoryLists[n]]
         IN  /\ Len(list) = Len(out)
             /\ \A i \in 1..Len(out) : list[i] = out[i].text
             /\ \A i \in 1..(Len(out) - 1) : out[i].confidence >= out[i + 1].confidence
    /\ LET names   == result.frameworks_and_libraries \o result.platforms_and_services
           leading == MatcherOutput("frameworks_libraries") \o MatcherOutput("platforms_services")
       IN  /\ Len(result.tools_and_software) >= Len(names)
           /\ \A i \in 1..Len(names) :
                /\ result.tools_and_software[i].text = names[i]
                /\ result.tools_and_software[i] = leading[i]
                /\ DOMAIN result.tools_and_software[i] = {"text", "confidence", "category"}

\* Two frameworks returned in the reverse of the order they have in the text, because
\* the second has the higher confidence, and a platform after them.
C25_Witness ==
  /\ Returned("process_text")
  /\ Len(result.frameworks_and_libraries) = 2
  /\ result.tools_and_software[1].confidence > result.tools_and_software[2].confidence
  /\ str_find(text, result.frameworks_and_libraries[1], 1)
       > str_find(text, result.frameworks_and_libraries[2], 1)
  /\ result.platforms_and_services # <<>>

\* The lower-cased term is a substring of the lower-cased text.
OccursIn(term, s) ==
  \E i \in 1..(Len(s) - Len(term) + 1) :
     SubSeq(str_lower(s), i, i + Len(term) - 1) = str_lower(term)

ReturnedTerms == {result[i].text : i \in 1..Len(result)}

\* C26: the set of terms extract_entities_by_category returns is exactly the set of
\* lexicon terms whose lower-cased form is a substring of the lower-cased text; an empty
\* text or an empty lexicon yields an empty list.
C26_EveryOccurringTermReturned ==
  Returned("extract_entities_by_category") =>
    /\ ReturnedTerms = {t \in Range(kb) : OccursIn(t, text)}
    /\ (text = "" \/ kb = <<>>) => result = <<>>

\* C26, amended: the returned terms are lexicon terms that occur in the text, one for
\* each lower-cased form of an occurring lexicon term and no two with the same
\* lower-cased form; an empty text or an empty lexicon yields an empty list.
C26_OneTermPerOccurringKey ==
  Returned("extract_entities_by_category") =>
    /\ ReturnedTerms \subseteq {t \in Range(kb) : OccursIn(t, text)}
    /\ {Key(t) : t \in ReturnedTerms} = {Key(t) : t \in {u \in Range(kb) : OccursIn(u, text)}}
    /\ \A i, j \in 1..Len(result) : i # j => Key(result[i].text) # Key(result[j].text)
    /\ (text = "" \/ kb = <<>>) => result = <<>>

\* A lexicon with a term in two casings, which occurs in the text only inside a longer
\* word: one of the two is returned.
C26_Witness ==
  /\ Returned("extract_entities_by_category")
  /\ {"go", "Go"} \subseteq Range(kb)
  /\ text = "gopher"
  /\ Len(result) = 1

\* A term of two words is returned for a text that holds the two words in a row.
C26_WitnessPhrase ==
  /\ Returned("extract_entities_by_category")
  /\ "Go React" \in ReturnedTerms
  /\ Len(str_split(text)) = 3

\* C29: a term of several words never receives the context bonus, whatever keywords
\* surround it, because no whitespace-delimited token holds it: its confidence is 0.5
\* plus the word-boundary bonus plus the repetition bonus, at most 1.0.
C29_NoContextBonusForPhrase ==
  (Returned("calculate_confidence") /\ str_contains(entityArg, " ")) =>
    /\ \A i \in 1..Len(str_split(text)) : ~str_contains(str_split(text)[i], entityArg)
    /\ result = ConfidenceOf(word_boundary_search(text, entityArg),
                             RepetitionOf(text, entityArg),
                             FALSE)

\* 'spring boot' as words of their own, right after one keyword and right before
\* another: 0.8.
C29_Witness ==
  /\ Returned("calculate_confidence")
  /\ entityArg = "spring boot"
  /\ text = "using spring boot library"
  /\ result = 800

\* C30: with the shipped lexicons no technical-concept term contains tool, software, app
\* or platform, so for every input tools_and_software is the framework matches followed
\* by the platform matches only, holds no two entries with the same text, and the
\* category of every entry is framework_library or platform_service.
C30_ShippedToolsAreFrameworksAndPlatforms ==
  (Returned("process_text") /\ self = NewProcessor) =>
    /\ \A t \in KnowledgeBase(self, "technical_concepts") : ~HasToolKeyword(t)
    /\ KnowledgeBase(self, "frameworks_libraries")
         \cap KnowledgeBase(self, "platforms_services") = {}
    /\ (KnowledgeBase(self, "frameworks_libraries") \cup KnowledgeBase(self, "platforms_services"))
         \cap KnowledgeBase(self, "programming_languages") = {}
    /\ Len(result.tools_and_software) =
         Len(result.frameworks_and_libraries) + Len(result.platforms_and_services)
    /\ \A i \in 1..Len(result.tools_and_software) :
         /\ result.tools_and_software[i].text =
              (result.frameworks_and_libraries \o result.platforms_and_services)[i]
         /\ result.tools_and_software[i].category \in {"framework_library", "platform_service"}
         /\ \A j \in 1..Len(result.tools_and_software) :
              i # j => result.tools_and_software[i].text # result.tools_and_software[j].text

\* The shipped processor on a text with a framework, a platform that is a company name
\* as well, and a technical concept.
C30_Witness ==
  /\ Returned("process_text")
  /\ self = NewProcessor
  /\ result.frameworks_and_libraries # <<>>
  /\ "github" \in Range(result.platforms_and_services)
  /\ "github" \in Range(result.companies_and_brands)
  /\ result.technical_concepts # <<>>

\* An AnalysisResult that stands for a failed input: extraction_method 'error', the raw
\* input as video_id, every extraction list empty and no confidence scores.
IsErrorResult(r, video_input) ==
  /\ r.extraction_method = "error"
  /\ r.video_id = video_input
  /\ \A f \in {"urls", "tools_and_software"} \cup Range(CategoryLists) : Len(r[f]) = 0
  /\ DOMAIN r.confidence_scores = {}

\* An AnalysisResult of an analysis that went through, for the input's video id.
IsAnalysisOf(r, video_input) ==
  /\ r.extraction_method \in {"youtube_api_description", "youtube_api_plus_crawling"}
  /\ ~extract_video_id(video_input).is_none
  /\ r.video_id = extract_video_id(video_input).value

\* analyze_batch is at a point from which it goes on: at the head of the loop with
\* inputs left or none, inside analyze, or right after analyze returned or raised.
BatchProceeds ==
  \/ analyzer.pc = "loop" /\ analyzer.index <= Len(analyzer.inputs)
  \/ /\ analyzer.pc \in {"extract_video_id", "get_video_metadata", "extract_from_page",
                         "process_text", "returned", "raised"}
     /\ analyzer.index \in 1..Len(analyzer.inputs)

\* C27: analyze_batch never aborts on a failing input.  While it runs it holds one
\* AnalysisResult for each input dealt with, in input order; an input whose analyze call
\* raised has an error result, any other the result analyze returned, and the loop goes
\* on to the inputs after it; the call comes to an end only by returning, one result for
\* each input.
C27_BatchNeverAborts ==
  op = "analyze_batch" =>
    /\ Len(analyzer.results) =
         IF analyzer.pc \in {"loop", "done"} THEN analyzer.index ELSE analyzer.index - 1
    /\ \A i \in 1..Len(analyzer.results) :
         \/ IsErrorResult(analyzer.results[i], analyzer.inputs[i])
         \/ IsAnalysisOf(analyzer.results[i], analyzer.inputs[i])
    /\ (analyzer.pc \in {"loop", "done"} /\ analyzer.index >= 1) =>
         IF analyzer.exception # ""
         THEN IsErrorResult(analyzer.results[analyzer.index], VideoInput(analyzer))
         ELSE analyzer.results[analyzer.index] = analyzer.value
    /\ pc = "returned" =>
         /\ result = analyzer.results
         /\ Len(result) = Len(analyzer.inputs)
    /\ pc \in {"called", "returned"}
    /\ pc = "returned" <=> analyzer.pc = "done"
    /\ pc = "called" => BatchProceeds

\* analyze_batch has returned two results: an error result for the first input, whose
\* analysis raised, and the analysis of the second.
C27_Witness ==
  /\ Returned("analyze_batch")
  /\ Len(result) = 2
  /\ IsErrorResult(result[1], analyzer.inputs[1])
  /\ result[2].extraction_method = "youtube_api_plus_crawling"

\* The crawl of the analyze call in progress reported no error and non-empty content.
CrawlGaveContent ==
  /\ "error" \notin DOMAIN analyzer.page_content
  /\ analyzer.page_content.page_content # ""

\* C28: analyze raises before any page crawl or text processing when the video id cannot
\* be extracted or the metadata lookup reports an error; otherwise it crawls once,
\* processes once and returns a result, whatever the crawl gave; extraction_method is
\* 'youtube_api_plus_crawling' exactly when the crawl returned no error and non-empty
\* page content, which is then appended to the description before processing, and
\* 'youtube_api_description' in every other case.
C28_AnalyzeRaisesEarlyOrReturns ==
  analyzer.pc \notin {"idle", "loop", "done"} =>
    LET unextractable == extract_video_id(VideoInput(analyzer)).is_none
        lookup_failed == "error" \in DOMAIN analyzer.metadata_dict
    IN  /\ analyzer.pc = "raised" =>
             /\ unextractable \/ lookup_failed
             /\ analyzer.crawls = 0
             /\ analyzer.processed = 0
        /\ analyzer.pc \in {"extract_from_page", "process_text", "returned"} =>
             /\ ~unextractable
             /\ ~lookup_failed
             /\ analyzer.exception = ""
        /\ unextractable => analyzer.pc \in {"extract_video_id", "raised"}
        /\ lookup_failed => analyzer.pc = "raised"
        /\ analyzer.pc = "process_text" => analyzer.crawls = 1 /\ analyzer.processed = 0
        /\ analyzer.pc = "returned" =>
             /\ analyzer.crawls = 1
             /\ analyzer.processed = 1
             /\ analyzer.value.extraction_method =
                  IF CrawlGaveContent THEN "youtube_api_plus_crawling"
                  ELSE "youtube_api_description"
             /\ analyzer.content_to_analyze =
                  IF CrawlGaveContent
                  THEN analyzer.metadata_dict.description \o "\n\n"
                         \o analyzer.page_content.page_content
                  ELSE analyzer.metadata_dict.description
             /\ LET analysis == process_text(self, analyzer.content_to_analyze, hashSeed)
                IN  /\ analyzer.value.urls = analysis.urls
                    /\ analyzer.value.tools_and_software = analysis.tools_and_software
                    /\ analyzer.value.confidence_scores = analysis.confidence_scores
        /\ op = "analyze" =>
             /\ pc = "raised" <=> analyzer.pc = "raised"
             /\ pc = "returned" <=> analyzer.pc = "returned"
             /\ pc = "returned" => result = analyzer.value

\* analyze has returned with the page content appended to the description.
C28_Witness ==
  /\ Returned("analyze")
  /\ result.extraction_method = "youtube_api_plus_crawling"
  /\ analyzer.metadata_dict.description # ""
  /\ result.tools_and_software # <<>>

\* analyze has raised because the metadata lookup reported an error.
C28_WitnessRaised ==
  /\ op = "analyze"
  /\ pc = "raised"
  /\ "error" \in DOMAIN analyzer.metadata_dict

\* analyze has returned although the crawl reported an error.
C28_WitnessCrawlFailed ==
  /\ Returned("analyze")
  /\ "error" \in DOMAIN analyzer.page_content
  /\ result.extraction_method = "youtube_api_description"

====
